---- MODULE Spec2Model ----
(***************************************************************************)
(* Model of the krytenbot release engine (mbiggs-gresham/releasebot).      *)
(*                                                                         *)
(* A JavaScript string is modelled as a sequence of one-character strings, *)
(* so that indexOf, substring, split, startsWith, the semver grammar and   *)
(* the glob matcher are computed character by character, as the code and   *)
(* its libraries compute them.                                             *)
(***************************************************************************)
EXTENDS Integers, Sequences, FiniteSets, TLC

(***************************************************************************)
(* Bounds of the model.                                                    *)
(***************************************************************************)
MaxTags == 2

MaxComments == 2

MaxFiles == 3

(***************************************************************************)
(* JavaScript values and String methods.                                   *)
(***************************************************************************)
\* null / undefined: a one-element sequence that is no string of characters.
Null == <<"null">>

Undefined == <<"undefined">>

DigitChars == <<"0", "1", "2", "3", "4", "5", "6", "7", "8", "9">>

LetterChars ==
    {"a", "b", "c", "d", "e", "f", "g", "h", "i", "j", "k", "l", "m",
     "n", "o", "p", "q", "r", "s", "t", "u", "v", "w", "x", "y", "z",
     "A", "B", "C", "D", "E", "F", "G", "H", "I", "J", "K", "L", "M",
     "N", "O", "P", "Q", "R", "S", "T", "U", "V", "W", "X", "Y", "Z"}

IsDigit(c) == \E i \in 1..10 : DigitChars[i] = c

DigitVal(c) == (CHOOSE i \in 1..10 : DigitChars[i] = c) - 1

IsLetter(c) == c \in LetterChars

\* [0-9A-Za-z_], the regular expression class \w
IsWordChar(c) == IsDigit(c) \/ IsLetter(c) \/ c = "_"

SetMin(S) == CHOOSE x \in S : \A y \in S : x <= y

\* String.prototype.indexOf: 0-based index of the first occurrence, or -1
IndexOf(s, pat) ==
    LET hits == {i \in 0..(Len(s) - Len(pat)) : SubSeq(s, i + 1, i + Len(pat)) = pat}
    IN  IF hits = {} THEN -1 ELSE SetMin(hits)

\* String.prototype.substring(start): start is clamped to [0, length]
Substring(s, start) ==
    LET from == IF start < 0 THEN 0 ELSE IF start > Len(s) THEN Len(s) ELSE start
    IN  SubSeq(s, from + 1, Len(s))

\* String.prototype.startsWith
StartsWith_Anywhere(s, prefix) == IndexOf(s, prefix) # -1

\* String.prototype.startsWith
StartsWith(s, prefix) ==
    /\ Len(prefix) <= Len(s)
    /\ SubSeq(s, 1, Len(prefix)) = prefix

\* String.prototype.split(separator) for a one-character separator
Split(s, sep) ==
    LET RECURSIVE go(_, _, _)
        go(i, cur, acc) ==
            IF i > Len(s) THEN Append(acc, cur)
            ELSE IF s[i] = sep THEN go(i + 1, <<>>, Append(acc, cur))
            ELSE go(i + 1, Append(cur, s[i]), acc)
    IN  go(1, <<>>, <<>>)

\* Array index: an index past the end reads undefined
At(arr, i) == IF i + 1 <= Len(arr) THEN arr[i + 1] ELSE Undefined

\* Array.prototype.join for an array of strings
Join(parts, sep) ==
    LET RECURSIVE go(_)
        go(i) ==
            IF i > Len(parts) THEN <<>>
            ELSE IF i = Len(parts) THEN parts[i]
            ELSE parts[i] \o sep \o go(i + 1)
    IN  go(1)

\* String.prototype.trim, for the space character
Trim(s) ==
    LET keep == {i \in 1..Len(s) : s[i] # " "}
    IN  IF keep = {} THEN <<>>
        ELSE SubSeq(s, SetMin(keep), CHOOSE i \in keep : \A j \in keep : j <= i)

\* The decimal value of a string of digits
RECURSIVE NumVal(_)
NumVal(s) ==
    IF Len(s) = 0 THEN 0
    ELSE 10 * NumVal(SubSeq(s, 1, Len(s) - 1)) + DigitVal(s[Len(s)])

\* The decimal digits of a natural number
RECURSIVE NumStr(_)
NumStr(n) ==
    IF n < 10 THEN <<DigitChars[n + 1]>>
    ELSE NumStr(n \div 10) \o <<DigitChars[(n % 10) + 1]>>

(***************************************************************************)
(* The semver package, as used by getNextVersion: semver.inc(v, release).  *)
(* A version is parsed with the strict grammar                             *)
(*   v?MAJOR.MINOR.PATCH(-PRERELEASE)?(+BUILD)?                            *)
(* and semver.inc returns null where the parse or the increment throws.    *)
(***************************************************************************)
\* (0|[1-9]\d*)
IsNumericIdentifier(s) ==
    /\ Len(s) >= 1
    /\ \A i \in 1..Len(s) : IsDigit(s[i])
    /\ (Len(s) > 1 => s[1] # "0")

\* [0-9A-Za-z-]+
IsBuildIdentifier(s) ==
    /\ Len(s) >= 1
    /\ \A i \in 1..Len(s) : IsDigit(s[i]) \/ IsLetter(s[i]) \/ s[i] = "-"

\* 0|[1-9]\d*|\d*[a-zA-Z-][a-zA-Z0-9-]*
IsPrereleaseIdentifier(s) ==
    /\ IsBuildIdentifier(s)
    /\ ((\A i \in 1..Len(s) : IsDigit(s[i])) => IsNumericIdentifier(s))

NotSemVer == [valid |-> FALSE]

\* new SemVer(version): the parsed version, or NotSemVer where it throws
SemVerParse(version) ==
    LET t      == Trim(version)
        body   == IF StartsWith(t, <<"v">>) THEN Substring(t, 1) ELSE t
        plus   == IndexOf(body, <<"+">>)
        head   == IF plus = -1 THEN body ELSE SubSeq(body, 1, plus)
        build  == IF plus = -1 THEN <<>> ELSE Split(Substring(body, plus + 1), ".")
        dash   == IndexOf(head, <<"-">>)
        main   == Split(IF dash = -1 THEN head ELSE SubSeq(head, 1, dash), ".")
        pre    == IF dash = -1 THEN <<>> ELSE Split(Substring(head, dash + 1), ".")
    IN  IF /\ Len(main) = 3
           /\ \A i \in 1..3 : IsNumericIdentifier(main[i])
           /\ \A i \in 1..Len(pre) : IsPrereleaseIdentifier(pre[i])
           /\ \A i \in 1..Len(build) : IsBuildIdentifier(build[i])
        THEN [valid |-> TRUE, major |-> NumVal(main[1]), minor |-> NumVal(main[2]),
              patch |-> NumVal(main[3]), prerelease |-> pre]
        ELSE NotSemVer

\* SemVer.format(): the version string, without build metadata
SemVerFormat(v) ==
    NumStr(v.major) \o <<".">> \o NumStr(v.minor) \o <<".">> \o NumStr(v.patch)
        \o (IF v.prerelease = <<>> THEN <<>> ELSE <<"-">> \o Join(v.prerelease, <<".">>))

IsNumericString(s) == Len(s) >= 1 /\ \A i \in 1..Len(s) : IsDigit(s[i])

\* SemVer.inc('pre'): bump the rightmost numeric prerelease identifier, or add 0
SemVerIncPre(v) ==
    LET pre  == v.prerelease
        nums == {i \in 1..Len(pre) : IsNumericString(pre[i])}
        last == CHOOSE i \in nums : \A j \in nums : j <= i
    IN  [v EXCEPT !.prerelease =
            IF pre = <<>> THEN << <<"0">> >>
            ELSE IF nums = {} THEN Append(pre, <<"0">>)
            ELSE [pre EXCEPT ![last] = NumStr(NumVal(pre[last]) + 1)]]

SemVerIncMajor(v) ==
    [v EXCEPT !.major = IF v.minor # 0 \/ v.patch # 0 \/ v.prerelease = <<>>
                        THEN v.major + 1 ELSE v.major,
              !.minor = 0, !.patch = 0, !.prerelease = <<>>]

SemVerIncMinor(v) ==
    [v EXCEPT !.minor = IF v.patch # 0 \/ v.prerelease = <<>>
                        THEN v.minor + 1 ELSE v.minor,
              !.patch = 0, !.prerelease = <<>>]

SemVerIncPatch(v) ==
    [v EXCEPT !.patch = IF v.prerelease = <<>> THEN v.patch + 1 ELSE v.patch,
              !.prerelease = <<>>]

Str_major == <<"m", "a", "j", "o", "r">>

Str_minor == <<"m", "i", "n", "o", "r">>

Str_patch == <<"p", "a", "t", "c", "h">>

Str_pre == <<"p", "r", "e">>

Str_prerelease == <<"p", "r", "e", "r", "e", "l", "e", "a", "s", "e">>

\* The release types SemVer.inc accepts; any other argument throws
SemVerReleaseTypes ==
    {Str_major, Str_minor, Str_patch, Str_pre, Str_prerelease,
     Str_pre \o Str_major, Str_pre \o Str_minor, Str_pre \o Str_patch}

\* SemVer.inc(release) on a parsed version
SemVerIncParsed(v, release) ==
    IF release = Str_major THEN SemVerIncMajor(v)
    ELSE IF release = Str_minor THEN SemVerIncMinor(v)
    ELSE IF release = Str_patch THEN SemVerIncPatch(v)
    ELSE IF release = Str_pre THEN SemVerIncPre(v)
    ELSE IF release = Str_prerelease
        THEN SemVerIncPre(IF v.prerelease = <<>> THEN SemVerIncPatch(v) ELSE v)
    ELSE IF release = Str_pre \o Str_major
        THEN SemVerIncPre([v EXCEPT !.prerelease = <<>>, !.patch = 0, !.minor = 0,
                                    !.major = v.major + 1])
    ELSE IF release = Str_pre \o Str_minor
        THEN SemVerIncPre([v EXCEPT !.prerelease = <<>>, !.patch = 0,
                                    !.minor = v.minor + 1])
    ELSE SemVerIncPre(SemVerIncPatch([v EXCEPT !.prerelease = <<>>]))

\* semver.inc(version, release): the incremented version string, or null
SemVerInc(version, release) ==
    LET v == SemVerParse(version)
    IN  IF v.valid /\ release \in SemVerReleaseTypes
        THEN SemVerFormat(SemVerIncParsed(v, release))
        ELSE Null

(***************************************************************************)
(* The minimatch package, as used by listProjectsOfRelevance, with default *)
(* options: the path and the pattern are compared segment by segment, a *  *)
(* never matches a "/" nor a leading ".", and there is no globstar in the  *)
(* program's patterns.                                                     *)
(***************************************************************************)
\* f.split(/\/+/): consecutive slashes separate once
SlashSplit(f) ==
    LET parts == Split(f, "/")
        keep  == [i \in 1..Len(parts) |-> parts[i] # <<>> \/ i = 1 \/ i = Len(parts)]
        RECURSIVE go(_)
        go(i) ==
            IF i > Len(parts) THEN <<>>
            ELSE (IF keep[i] THEN <<parts[i]>> ELSE <<>>) \o go(i + 1)
    IN  go(1)

\* one path segment against one pattern segment made of literals and *
RECURSIVE GlobSegment(_, _)
GlobSegment(seg, p) ==
    IF p = <<>> THEN seg = <<>>
    ELSE IF p[1] = "*"
        THEN GlobSegment(seg, Tail(p)) \/ (seg # <<>> /\ GlobSegment(Tail(seg), p))
    ELSE seg # <<>> /\ seg[1] = p[1] /\ GlobSegment(Tail(seg), Tail(p))

SegmentMatch(seg, p) ==
    IF \E i \in 1..Len(p) : p[i] = "*"
    THEN /\ seg # <<>>
         /\ (seg[1] = "." => p[1] = ".")
         /\ GlobSegment(seg, p)
    ELSE seg = p

\* minimatch(file, pattern)
minimatch(file, pattern) ==
    LET ff == SlashSplit(file)
        pp == SlashSplit(pattern)
    IN  /\ pattern # <<>>
        /\ pattern[1] # "#"
        /\ Len(ff) >= Len(pp)
        /\ \A i \in 1..Len(pp) : SegmentMatch(ff[i], pp[i])
        /\ \/ Len(ff) = Len(pp)
           \/ (Len(ff) = Len(pp) + 1 /\ ff[Len(ff)] = <<>>)


(***************************************************************************)
(* github-helper.ts: constants, names and the draft release record.        *)
(***************************************************************************)
Str_core == <<"c", "o", "r", "e">>

Str_grid == <<"g", "r", "i", "d">>

Str_krytenbot == <<"k", "r", "y", "t", "e", "n", "b", "o", "t">>

Str_bot == <<"@">> \o Str_krytenbot

Commands ==
    [Rebase     |-> Str_bot \o <<" ", "r", "e", "b", "a", "s", "e">>,
     Recreate   |-> Str_bot \o <<" ", "r", "e", "c", "r", "e", "a", "t", "e">>,
     SetVersion |-> Str_bot \o <<" ", "s", "e", "t", "v", "e", "r", "s", "i", "o", "n">>]

\* type Version = 'major' | 'minor' | 'patch'
Version == {Str_major, Str_minor, Str_patch}

projects == <<Str_core, Str_grid>>

projectsPaths == <<Str_core \o <<"/", "*">>, Str_grid \o <<"/", "*">>>>

\* Set.prototype.add, the set kept in insertion order
SetAdd(arr, x) == IF \E i \in 1..Len(arr) : arr[i] = x THEN arr ELSE Append(arr, x)

\* a version that collects into an array instead of a Set
listProjectsOfRelevance_Array(fs) ==
    LET RECURSIVE perProject(_, _, _)
        perProject(acc, file, index) ==
            IF index > Len(projects) THEN acc
            ELSE perProject(IF minimatch(file, projectsPaths[index])
                            THEN Append(acc, projects[index]) ELSE acc,
                            file, index + 1)
        RECURSIVE perFile(_, _)
        perFile(acc, k) ==
            IF k > Len(fs) THEN acc ELSE perFile(perProject(acc, fs[k], 1), k + 1)
    IN  perFile(<<>>, 1)

\* listProjectsOfRelevance(files): for each file, for each project, in order
listProjectsOfRelevance(fs) ==
    LET RECURSIVE perProject(_, _, _)
        perProject(acc, file, index) ==
            IF index > Len(projects) THEN acc
            ELSE perProject(IF minimatch(file, projectsPaths[index])
                            THEN SetAdd(acc, projects[index]) ELSE acc,
                            file, index + 1)
        RECURSIVE perFile(_, _)
        perFile(acc, k) ==
            IF k > Len(fs) THEN acc ELSE perFile(perProject(acc, fs[k], 1), k + 1)
    IN  perFile(<<>>, 1)

getReleaseBranchName(project) == Str_krytenbot \o <<"-">> \o project

getDefaultNextVersion_Wrong == <<"0", ".", "1", ".", "0">>

getDefaultNextVersion == <<"0", ".", "0", ".", "1">>

\* The inner loop of getNextVersion: the comments from index j on, in array
\* order; the first setversion comment whose bump succeeds decides.
RECURSIVE SetVersionOverride(_, _, _)
SetVersionOverride(comments, tagVersion, j) ==
    IF j > Len(comments) THEN Null
    ELSE LET commentBody     == comments[j].body
             nextVersionType == At(Split(commentBody, " "), 2)
             nv == IF StartsWith(commentBody, Commands.SetVersion)
                   THEN SemVerInc(tagVersion, nextVersionType)
                   ELSE Null
         IN  IF nv # Null THEN nv
             ELSE SetVersionOverride(comments, tagVersion, j + 1)

\* The outer loop of getNextVersion: the tags from index i on, in array order.
RECURSIVE getNextVersionFrom(_, _, _)
getNextVersionFrom(draft, requested, i) ==
    IF i > Len(draft.tags.tags) THEN getDefaultNextVersion
    ELSE LET tagName    == draft.tags.tags[i].name
             tagVersion == Substring(tagName, IndexOf(tagName, <<"@", "v">>) + 2)
             override ==
                 IF Len(draft.pullRequests.pullRequests) > 0
                 THEN SetVersionOverride(
                          draft.pullRequests.pullRequests[1].comments.comments,
                          tagVersion, 1)
                 ELSE Null
             nv == SemVerInc(tagVersion, requested)
         IN  IF override # Null THEN override
             ELSE IF nv # Null THEN nv
             ELSE getNextVersionFrom(draft, requested, i + 1)

\* a resolver that trusts a version already written in the pull request title
getNextVersion_ReadsTitle(draft, requested) ==
    IF /\ Len(draft.pullRequests.pullRequests) > 0
       /\ draft.pullRequests.pullRequests[1].title # <<>>
    THEN Substring(draft.pullRequests.pullRequests[1].title, 1)
    ELSE getNextVersionFrom(draft, requested, 1)

getNextVersion(draft, requested) == getNextVersionFrom(draft, requested, 1)

(***************************************************************************)
(* The platform (GitHub) as findDraftReleaseQuery reads it.                *)
(***************************************************************************)
\* refs(last: 20, ...), comments(last: 10), pullRequests(last: 1, ...)
RefsLast == 20

CommentsLast == 10

PullRequestsLast == 1

Str_release == <<"r", "e", "l", "e", "a", "s", "e">>

\* Connection argument last: n -- the last n nodes, in connection order
LastN(nodes, n) ==
    IF Len(nodes) <= n THEN nodes ELSE SubSeq(nodes, Len(nodes) - n + 1, Len(nodes))

\* The nodes that satisfy a filter, in connection order
RECURSIVE FilterSeq(_, _)
FilterSeq(nodes, keep) ==
    IF nodes = <<>> THEN <<>>
    ELSE (IF keep[nodes[1]] THEN <<nodes[1]>> ELSE <<>>) \o FilterSeq(Tail(nodes), keep)

\* refs(refPrefix, query): the refs whose name contains the query string
RefsQuery(refs, query) ==
    LET hit == [r \in {refs[i] : i \in 1..Len(refs)} |-> IndexOf(r.name, query) # -1]
        last == LastN(FilterSeq(refs, hit), RefsLast)
    IN  [i \in 1..Len(last) |-> [id |-> last[i].id, name |-> last[i].name]]

\* pullRequests(last: 1, labels, states: OPEN) with comments(last: 10)
\* The labels filter of the platform keeps a pull request that carries any of
\* the labels.
PullRequestsQuery(prs, labels) ==
    LET hit  == [pr \in {prs[i] : i \in 1..Len(prs)} |->
                    pr.state = "OPEN" /\ pr.labels \cap labels # {}]
        open == LastN(FilterSeq(prs, hit), PullRequestsLast)
    IN  [i \in 1..Len(open) |->
            [id |-> open[i].id, number |-> open[i].number, title |-> open[i].title,
             body |-> open[i].body, baseRefName |-> open[i].baseRefName,
             headRefName |-> open[i].headRefName,
             comments |-> [comments |-> LastN(open[i].comments, CommentsLast)]]]

VARIABLES
    tags,                \* platform: the tag refs, in platform order
    branches,            \* platform: the branch refs
    pullRequests,        \* platform: the pull requests, in creation order
    reactions,           \* platform: the ids of the comments carrying a reaction
    pc,                  \* the position of the running trigger invocation
    payload,             \* github.context.payload of the trigger
    draftRelease,        \* the draft release read by findDraftRelease
    versionType,         \* the bump type requested by the caller
    nextVersion,         \* the version computed by getNextVersion
    failed,              \* core.setFailed was called
    files,               \* the changed files of a push
    projectsOfRelevance, \* the result of listProjectsOfRelevance
    projectInPass,       \* the project the push pass is processing
    issued,              \* the mutating platform calls issued by the run, in order
    runs                 \* concurrent invocations of setReleaseBranchVersion

platform == <<tags, branches, pullRequests, reactions>>

vars ==
    <<tags, branches, pullRequests, reactions, pc, payload, draftRelease,
      versionType, nextVersion, failed, files, projectsOfRelevance, projectInPass,
      issued, runs>>

\* findDraftRelease(octokit, project): the repository node of the query
findDraftRelease(project) ==
    [id           |-> "R_repo",
     tags         |-> [tags |-> RefsQuery(tags, project)],
     branches     |-> [branches |-> RefsQuery(branches, getReleaseBranchName(project))],
     releaseLabel |-> [id |-> "L_release", name |-> Str_release],
     projectLabel |-> [id |-> "L_project", name |-> project],
     pullRequests |-> [pullRequests |-> PullRequestsQuery(pullRequests, {Str_release, project})]]

(***************************************************************************)
(* Inputs of the bounded checks.                                           *)
(***************************************************************************)
SeqsUpTo(S, n) == UNION {[1..k -> S] : k \in 0..n}

Tag_1_2_3 == Str_core \o <<"@", "v", "1", ".", "2", ".", "3">>

Tag_1_3_0 == Str_core \o <<"@", "v", "1", ".", "3", ".", "0">>

Tag_rc == Str_core \o <<"@", "v", "2", ".", "0", ".", "0", "-", "r", "c", ".", "1">>

\* a tag whose suffix is no semantic version
Tag_malformed == Str_core \o <<"@", "v", "1", ".", "2">>

TagNames == {Tag_1_2_3, Tag_1_3_0, Tag_rc, Tag_malformed}

Body_major == Commands.SetVersion \o <<" ">> \o Str_major

Body_minor == Commands.SetVersion \o <<" ">> \o Str_minor

Body_patch == Commands.SetVersion \o <<" ">> \o Str_patch

Body_prerelease == Commands.SetVersion \o <<" ">> \o Str_prerelease

Body_bogus == Commands.SetVersion \o <<" ", "b", "o", "g", "u", "s">>

\* the setversion prefix with no argument
Body_missing == Commands.SetVersion

Body_lgtm == <<"L", "G", "T", "M">>

CommentBodies == {Body_major, Body_minor, Body_patch, Body_bogus, Body_lgtm}

TagRefs(names) == [i \in 1..Len(names) |-> [id |-> i, name |-> names[i]]]

CommentNodes(bodies) ==
    [i \in 1..Len(bodies) |-> [id |-> i, author |-> [login |-> "dev"], body |-> bodies[i]]]

\* An open release pull request of a project, as the engine labels it
ReleasePullRequest(project, title, bodies) ==
    [id |-> 1, number |-> 1, title |-> title, body |-> <<>>,
     labels |-> {Str_release, project}, state |-> "OPEN",
     baseRefName |-> <<"m", "a", "i", "n">>,
     headRefName |-> getReleaseBranchName(project),
     comments |-> CommentNodes(bodies)]

NoDraftRelease == [id |-> "none"]

(***************************************************************************)
(* SpecVersion: the version resolver on every bounded tag and comment      *)
(* history. The step is pushEvent's read of the draft release followed by  *)
(* getNextVersion, for the project core.                                   *)
(***************************************************************************)
InitVersion ==
    /\ tags \in {TagRefs(names) : names \in SeqsUpTo(TagNames, MaxTags)}
    /\ branches = <<>>
    /\ pullRequests \in
          {<<>>} \cup {<<ReleasePullRequest(Str_core, <<>>, bodies)>> :
                          bodies \in SeqsUpTo(CommentBodies, MaxComments)}
    /\ reactions = {}
    /\ pc = "resolve"
    /\ payload = [event |-> "none"]
    /\ draftRelease = NoDraftRelease
    /\ versionType \in Version
    /\ nextVersion = Null
    /\ failed = FALSE
    /\ files = <<>>
    /\ projectsOfRelevance = <<>>
    /\ projectInPass = Undefined
    /\ issued = <<>>
    /\ runs = <<>>

ResolveVersion ==
    /\ pc = "resolve"
    /\ draftRelease' = findDraftRelease(Str_core)
    /\ nextVersion' = getNextVersion(findDraftRelease(Str_core), versionType)
    /\ pc' = "resolved"
    /\ UNCHANGED <<tags, branches, pullRequests, reactions, payload, versionType,
                   failed, files, projectsOfRelevance, projectInPass,
                   issued, runs>>

NextVersion == ResolveVersion

SpecVersion == InitVersion /\ [][NextVersion]_vars

(***************************************************************************)
(* Notions of the specification the version claims are stated with.        *)
(***************************************************************************)
Resolved == pc = "resolved"

ResolvedTags == draftRelease.tags.tags

\* the comments of the pull request of the draft release; none without one
ResolvedComments ==
    IF Len(draftRelease.pullRequests.pullRequests) = 0 THEN <<>>
    ELSE draftRelease.pullRequests.pullRequests[1].comments.comments

\* the semver suffix embedded in <project>@v<semver>
TagSuffix(name) == Substring(name, IndexOf(name, <<"@", "v">>) + 2)

WellFormedTag(name) == SemVerParse(TagSuffix(name)).valid

\* "current version": the suffix of the last tag in sequence order
CurrentVersion == TagSuffix(ResolvedTags[Len(ResolvedTags)].name)

\* the positions of the comments that start with the setversion prefix
SetVersionAt ==
    {j \in 1..Len(ResolvedComments) :
        StartsWith(ResolvedComments[j].body, Commands.SetVersion)}

\* the bump-type argument of a setversion comment: its third token
BumpArgument(j) == At(Split(ResolvedComments[j].body, " "), 2)

MostRecentSetVersion == CHOOSE j \in SetVersionAt : \A k \in SetVersionAt : k <= j

Version_0_0_1 == <<"0", ".", "0", ".", "1">>

\* C1: with an empty tag sequence the resolved version is exactly 0.0.1,
\* whatever the comments (setversion commands included) and the requested bump.
C1_EmptyTagsGiveDefault ==
    (Resolved /\ ResolvedTags = <<>>) => nextVersion = Version_0_0_1

C1_Witness ==
    /\ Resolved
    /\ ResolvedTags = <<>>
    /\ \E j \in SetVersionAt : BumpArgument(j) = Str_major
    /\ versionType = Str_minor
    /\ nextVersion = Version_0_0_1

\* C2: with two or more well-formed tags the resolved version is a bump of the
\* LAST tag's semver suffix, never of an earlier tag.
C2_LastTagIsCurrent ==
    (/\ Resolved
     /\ Len(ResolvedTags) >= 2
     /\ \A i \in 1..Len(ResolvedTags) : WellFormedTag(ResolvedTags[i].name))
    => nextVersion \in {SemVerInc(CurrentVersion, t) : t \in SemVerReleaseTypes}

\* C3: with several setversion comments of different valid bump types, the
\* resolved version is the current version bumped by the MOST RECENT one.
C3_MostRecentOverrideWins ==
    (/\ Resolved
     /\ ResolvedTags # <<>>
     /\ WellFormedTag(ResolvedTags[Len(ResolvedTags)].name)
     /\ \A j \in SetVersionAt : BumpArgument(j) \in Version
     /\ \E j, k \in SetVersionAt : BumpArgument(j) # BumpArgument(k))
    => nextVersion = SemVerInc(CurrentVersion, BumpArgument(MostRecentSetVersion))

\* C4: with tags and at least one setversion comment the resolved version is
\* the same for every requested bump type, and is the current version bumped by
\* the comment's bump type.
C4_OverrideIgnoresRequestedBump ==
    (/\ Resolved
     /\ ResolvedTags # <<>>
     /\ WellFormedTag(ResolvedTags[Len(ResolvedTags)].name)
     /\ SetVersionAt # {})
    => /\ \A b \in Version : getNextVersion(draftRelease, b) = nextVersion
       /\ nextVersion = SemVerInc(CurrentVersion, BumpArgument(MostRecentSetVersion))

\* X.Y.Z incremented under the semver rules of the claim
PlainBump(v, bump) ==
    IF bump = Str_major THEN NumStr(v.major + 1) \o <<".", "0", ".", "0">>
    ELSE IF bump = Str_minor
        THEN NumStr(v.major) \o <<".">> \o NumStr(v.minor + 1) \o <<".", "0">>
    ELSE NumStr(v.major) \o <<".">> \o NumStr(v.minor) \o <<".">> \o NumStr(v.patch + 1)

\* C5: with tags and no setversion comment (or no pull request) the resolved
\* version is the current version X.Y.Z incremented by the requested bump:
\* major -> (X+1).0.0, minor -> X.(Y+1).0, patch -> X.Y.(Z+1).
C5_PlainBumpOfCurrent ==
    (/\ Resolved
     /\ ResolvedTags # <<>>
     /\ SetVersionAt = {}
     /\ SemVerParse(CurrentVersion).valid
     /\ SemVerParse(CurrentVersion).prerelease = <<>>)
    => nextVersion = PlainBump(SemVerParse(CurrentVersion), versionType)

\* the bump the specification asks for fails: the current tag's version is
\* malformed, or the override comment's bump type is not major/minor/patch
BumpFails ==
    \/ ~WellFormedTag(ResolvedTags[Len(ResolvedTags)].name)
    \/ (SetVersionAt # {} /\ BumpArgument(MostRecentSetVersion) \notin Version)

\* C6: with tags, a failing bump signals an error: no version is returned (not
\* 0.0.1, not one from another tag or comment, not one from the requested bump)
\* and the pass is a failure.
C6_FailedBumpSignalsError ==
    (Resolved /\ ResolvedTags # <<>> /\ BumpFails)
    => (nextVersion = Null /\ failed)

\* Draft releases that carry the same tag names and the same pull-request
\* comment bodies as d, and differ in everything else the query returns.
DraftVariants(d) ==
    {[id           |-> "R_other",
      tags         |-> [tags |-> [i \in 1..Len(d.tags.tags) |->
                          [id |-> d.tags.tags[i].id + shift,
                           name |-> d.tags.tags[i].name]]],
      branches     |-> [branches |-> br],
      releaseLabel |-> [id |-> "L_x", name |-> Str_release],
      projectLabel |-> [id |-> "L_y", name |-> Str_grid],
      pullRequests |-> [pullRequests |->
          [i \in 1..Len(d.pullRequests.pullRequests) |->
              [id |-> 7, number |-> 7, title |-> title, body |-> title,
               baseRefName |-> Str_grid, headRefName |-> Str_core,
               comments |-> [comments |->
                   [j \in 1..Len(d.pullRequests.pullRequests[i].comments.comments) |->
                       [id |-> j + shift, author |-> [login |-> "bot"],
                        body |-> d.pullRequests.pullRequests[i].comments.comments[j].body]]]]]]]
     : shift \in {5},
       br \in {<<>>, <<[id |-> 1, name |-> getReleaseBranchName(Str_core)]>>},
       title \in {<<"v", "9", ".", "9", ".", "9">>}}

\* C7: computing the next version leaves the platform state (tags, branch refs,
\* pull requests, comments, reactions) unchanged, and the version depends only
\* on the tag names, the pull request's comment bodies and the requested bump:
\* every draft release that agrees on these resolves to the same version.
C7_ResolverIsPure ==
    [][ResolveVersion =>
          /\ UNCHANGED platform
          /\ \A d \in DraftVariants(draftRelease') :
                getNextVersion(d, versionType) = nextVersion']_vars

C7_Witness ==
    /\ Resolved
    /\ Len(ResolvedTags) >= 2
    /\ SetVersionAt # {}
    /\ nextVersion # Null
    /\ nextVersion # Version_0_0_1

(***************************************************************************)
(* SpecRelevance: listProjectsOfRelevance on every bounded list of         *)
(* distinct changed files (listPushCommitFiles returns the elements of a   *)
(* Set).                                                                   *)
(***************************************************************************)
File_core_a == Str_core \o <<"/", "a", ".", "t", "s">>

File_core_src_x == Str_core \o <<"/", "s", "r", "c", "/", "x", ".", "t", "s">>

File_core_dot == Str_core \o <<"/", ".", "n", "p", "m", "r", "c">>

File_grid_b == Str_grid \o <<"/", "b", ".", "t", "s">>

File_grid_c == Str_grid \o <<"/", "c", ".", "t", "s">>

File_docs == <<"d", "o", "c", "s", "/", "r", "e", "a", "d", "m", "e", ".", "m", "d">>

FilePaths ==
    {File_core_a, File_core_src_x, File_core_dot, File_grid_b, File_grid_c, File_docs}

DistinctSeqs(S, n) ==
    {q \in SeqsUpTo(S, n) : \A i, j \in 1..Len(q) : i # j => q[i] # q[j]}

InitRelevance ==
    /\ tags = <<>>
    /\ branches = <<>>
    /\ pullRequests = <<>>
    /\ reactions = {}
    /\ pc = "list"
    /\ payload = [event |-> "push"]
    /\ draftRelease = NoDraftRelease
    /\ versionType = Str_patch
    /\ nextVersion = Null
    /\ failed = FALSE
    /\ files \in DistinctSeqs(FilePaths, MaxFiles)
    /\ projectsOfRelevance = <<>>
    /\ projectInPass = Undefined
    /\ issued = <<>>
    /\ runs = <<>>

ListProjects ==
    /\ pc = "list"
    /\ projectsOfRelevance' = listProjectsOfRelevance(files)
    /\ pc' = "listed"
    /\ UNCHANGED <<tags, branches, pullRequests, reactions, payload, draftRelease,
                   versionType, nextVersion, failed, files, projectInPass,
                   issued, runs>>

NextRelevance == ListProjects

SpecRelevance == InitRelevance /\ [][NextRelevance]_vars

Listed == pc = "listed"

ToSet(q) == {q[i] : i \in 1..Len(q)}

\* the configured projects whose glob pattern matches at least one of the paths
MatchingProjects(paths) ==
    {projects[i] : i \in {i \in 1..Len(projects) :
                            \E k \in 1..Len(paths) : minimatch(paths[k], projectsPaths[i])}}

\* C8: the relevant projects are exactly the configured projects whose glob
\* matches at least one changed path; each appears once; a path matching no
\* project adds nothing and fails nothing; no path gives no project.
C8_RelevantProjectsExact ==
    Listed =>
        /\ ToSet(projectsOfRelevance) = MatchingProjects(files)
        /\ Cardinality(ToSet(projectsOfRelevance)) = Len(projectsOfRelevance)
        /\ (files = <<>> => projectsOfRelevance = <<>>)
        /\ ~failed

C8_Witness ==
    /\ Listed
    /\ ToSet(files) = {File_grid_b, File_grid_c, File_docs}
    /\ projectsOfRelevance = <<Str_grid>>

\* a path more than one directory level below the root of project i
NestedBelow(path, i) ==
    /\ StartsWith(path, projects[i] \o <<"/">>)
    /\ Len(SlashSplit(path)) > 2

\* C9: a changed path nested more than one directory level below a project's
\* root makes that project relevant (core/src/x.ts makes core relevant).
C9_NestedPathIsRelevant ==
    Listed =>
        \A i \in 1..Len(projects) :
            (\E k \in 1..Len(files) : NestedBelow(files[k], i))
            => projects[i] \in ToSet(projectsOfRelevance)

(***************************************************************************)
(* version-helper.ts and markdown.ts.                                      *)
(***************************************************************************)
\* The character U+0060, which a TLA+ string literal cannot hold
Backtick == "U+0060"

semverVersionTypes == <<Str_major, Str_minor, Str_patch>>

\* A validity test that accepts every token that is present
isValidSemverVersionType_Lenient(version) == version # Undefined

\* semverVersionTypes.includes(version)
isValidSemverVersionType(version) ==
    \E i \in 1..Len(semverVersionTypes) : semverVersionTypes[i] = version

Str_versionKey ==
    <<"\"", "v", "e", "r", "s", "i", "o", "n", "\"", ":", " ", "\"">>

\* The positions q >= from of a closing quote on the line that holds from - 1
ClosingQuotes(s, from) ==
    {q \in from..Len(s) : s[q] = "\"" /\ \A k \in from..q : s[k] \notin {"\n", "\r"}}

\* A patch whose pattern stops after the opening quote of the value, so that
\* the old value stays behind the new one
patchPackageJson_KeepsOld(fileContents, version) ==
    LET n      == Len(Str_versionKey)
        starts == {i \in 1..(Len(fileContents) - n + 1) :
                      SubSeq(fileContents, i, i + n - 1) = Str_versionKey}
    IN  IF starts = {} THEN fileContents
        ELSE LET i == SetMin(starts)
             IN  SubSeq(fileContents, 1, i - 1) \o Str_versionKey \o version
                    \o <<"\"">> \o SubSeq(fileContents, i + n, Len(fileContents))

\* fileContents.replace(/"version": "(.*)"/, `"version": "${nextVersion}"`):
\* the leftmost match is replaced; (.*) is greedy and stays on one line.
\* (version holds no $ in the model, so no replacement pattern.)
patchPackageJson(fileContents, version) ==
    LET n      == Len(Str_versionKey)
        starts == {i \in 1..(Len(fileContents) - n + 1) :
                      /\ SubSeq(fileContents, i, i + n - 1) = Str_versionKey
                      /\ ClosingQuotes(fileContents, i + n) # {}}
    IN  IF starts = {} THEN fileContents
        ELSE LET i    == SetMin(starts)
                 last == CHOOSE q \in ClosingQuotes(fileContents, i + n) :
                            \A r \in ClosingQuotes(fileContents, i + n) : r <= q
             IN  SubSeq(fileContents, 1, i - 1) \o Str_versionKey \o version
                    \o <<"\"">> \o SubSeq(fileContents, last + 1, Len(fileContents))

Str_hiddenOpen ==
    <<"[", "/", "/", "]", ":", " ", "#", " ", "(">>

\* An HTML comment in the place of the link-reference comment
hidden_Html(message) == <<"<", "!", "-", "-", " ">> \o message \o <<" ", "-", "-", ">">>

\* markdown.hidden(message)
hidden(message) == Str_hiddenOpen \o message \o <<")">>

Str_important ==
    <<">", " ", "[", "!", "I", "M", "P", "O", "R", "T", "A", "N", "T", "]",
      "\n", ">", " ">>

\* markdown.important(message)
important(message) == Str_important \o message

(***************************************************************************)
(* github-helper.ts: the title and the body of the release pull request.   *)
(***************************************************************************)
Str_titleHead ==
    <<"R", "e", "l", "e", "a", "s", "e", " ", Backtick>>

Str_titleMid ==
    <<Backtick, " ", "v">>

getPullRequestTitle(project, version) ==
    Str_titleHead \o project \o Str_titleMid \o version

Str_projectMarker ==
    <<"k", "r", "y", "t", "e", "n", "b", "o", "t", "-", "p", "r", "o", "j",
      "e", "c", "t", ":">>

Str_start ==
    <<"k", "r", "y", "t", "e", "n", "b", "o", "t", "-", "s", "t", "a", "r",
      "t">>

Str_end ==
    <<"k", "r", "y", "t", "e", "n", "b", "o", "t", "-", "e", "n", "d">>

Str_rebasing ==
    <<"K", "r", "y", "t", "e", "n", "b", "o", "t", " ", "i", "s", " ", "r",
      "e", "b", "a", "s", "i", "n", "g", " ", "t", "h", "i", "s", " ", "P",
      "R">>

\* The template literal of getPullRequestBody, before ${nextVersion}
PullRequestBodyHead ==
    <<"\n", "T", "h", "i", "s", " ", "P", "R", " ", "w", "a", "s", " ", "c",
      "r", "e", "a", "t", "e", "d", " ", "a", "u", "t", "o", "m", "a", "t",
      "i", "c", "a", "l", "l", "y", " ", "b", "y", " ", "t", "h", "e", " ",
      "K", "r", "y", "t", "e", "n", "b", "o", "t", " ", "t", "o", " ", "t",
      "r", "a", "c", "k", " ", "t", "h", "e", " ", "n", "e", "x", "t", " ",
      "r", "e", "l", "e", "a", "s", "e", ".", " ", "\n", "T", "h", "e", " ",
      "n", "e", "x", "t", " ", "v", "e", "r", "s", "i", "o", "n", " ", "f",
      "o", "r", " ", "t", "h", "i", "s", " ", "r", "e", "l", "e", "a", "s",
      "e", " ", "i", "s", " ", "v">>

\* The template literal of getPullRequestBody, after ${nextVersion}
PullRequestBodyTail ==
    <<".", "\n", "\n", "-", "-", "-", "\n", "\n", "<", "d", "e", "t", "a",
      "i", "l", "s", ">", "\n", "<", "s", "u", "m", "m", "a", "r", "y", ">",
      "K", "r", "y", "t", "e", "n", "b", "o", "t", " ", "c", "o", "m", "m",
      "a", "n", "d", "s", " ", "a", "n", "d", " ", "o", "p", "t", "i", "o",
      "n", "s", "<", "/", "s", "u", "m", "m", "a", "r", "y", ">", "\n", "<",
      "b", "r", " ", "/", ">", "\n", "\n", "Y", "o", "u", " ", "c", "a", "n",
      " ", "t", "r", "i", "g", "g", "e", "r", " ", "K", "r", "y", "t", "e",
      "n", "b", "o", "t", " ", "a", "c", "t", "i", "o", "n", "s", " ", "b",
      "y", " ", "c", "o", "m", "m", "e", "n", "t", "i", "n", "g", " ", "o",
      "n", " ", "t", "h", "i", "s", " ", "P", "R", ":", "\n", "-", " ", Backtick,
      "@", "k", "r", "y", "t", "e", "n", "b", "o", "t", " ", "r", "e", "b",
      "a", "s", "e", Backtick, " ", "w", "i", "l", "l", " ", "r", "e", "b", "a",
      "s", "e", " ", "t", "h", "i", "s", " ", "P", "R", "\n", "-", " ", Backtick,
      "@", "k", "r", "y", "t", "e", "n", "b", "o", "t", " ", "r", "e", "c",
      "r", "e", "a", "t", "e", Backtick, " ", "w", "i", "l", "l", " ", "r", "e",
      "c", "r", "e", "a", "t", "e", " ", "t", "h", "i", "s", " ", "P", "R",
      ",", " ", "o", "v", "e", "r", "w", "r", "i", "t", "i", "n", "g", " ",
      "a", "n", "y", " ", "e", "d", "i", "t", "s", " ", "t", "h", "a", "t",
      " ", "h", "a", "v", "e", " ", "b", "e", "e", "n", " ", "m", "a", "d",
      "e", " ", "t", "o", " ", "i", "t", "\n", "-", " ", Backtick, "@", "k", "r",
      "y", "t", "e", "n", "b", "o", "t", " ", "s", "e", "t", "v", "e", "r",
      "s", "i", "o", "n", " ", "[", "m", "a", "j", "o", "r", "|", "m", "i",
      "n", "o", "r", "|", "p", "a", "t", "c", "h", "]", Backtick, " ", "w", "i",
      "l", "l", " ", "s", "e", "t", " ", "t", "h", "e", " ", "v", "e", "r",
      "s", "i", "o", "n", " ", "f", "o", "r", " ", "t", "h", "i", "s", " ",
      "P", "R", "\n", "<", "/", "d", "e", "t", "a", "i", "l", "s", ">", "\n",
      " ", " ">>

getPullRequestBody(project, version, rebasing) ==
    hidden(Str_projectMarker \o project) \o <<"\n">>
       \o (IF rebasing
           THEN hidden(Str_start) \o <<"\n", "\n">> \o important(Str_rebasing)
                   \o <<"\n", "\n">> \o hidden(Str_end) \o <<"\n">>
           ELSE <<>>)
       \o PullRequestBodyHead \o version \o PullRequestBodyTail

(***************************************************************************)
(* SpecComment: the comment trigger. A comment is posted on the release    *)
(* pull request of core, the workflow runs issueCommentEvent on it, and    *)
(* the handler's awaited calls are taken one at a time.                    *)
(***************************************************************************)
Str_releasebot_core ==
    <<"r", "e", "l", "e", "a", "s", "e", "b", "o", "t", "-", "c", "o", "r",
      "e">>

Str_main ==
    <<"m", "a", "i", "n">>

Manifest_core ==
    <<"{", "\n", " ", " ", "\"", "n", "a", "m", "e", "\"", ":", " ", "\"",
      "c", "o", "r", "e", "\"", ",", "\n", " ", " ", "\"", "v", "e", "r",
      "s", "i", "o", "n", "\"", ":", " ", "\"", "0", ".", "0", ".", "0",
      "\"", "\n", "}">>

Body_doubleSpace ==
    <<"@", "k", "r", "y", "t", "e", "n", "b", "o", "t", " ", "s", "e", "t",
      "v", "e", "r", "s", "i", "o", "n", " ", " ", "m", "a", "j", "o", "r">>

Body_rebase ==
    <<"@", "k", "r", "y", "t", "e", "n", "b", "o", "t", " ", "r", "e", "b",
      "a", "s", "e">>

Body_leadingSpace ==
    <<" ", "@", "k", "r", "y", "t", "e", "n", "b", "o", "t", " ", "s", "e",
      "t", "v", "e", "r", "s", "i", "o", "n", " ", "m", "a", "j", "o", "r">>

Body_upperCase ==
    <<"@", "K", "r", "y", "t", "e", "n", "b", "o", "t", " ", "S", "e", "t",
      "V", "e", "r", "s", "i", "o", "n", " ", "m", "a", "j", "o", "r">>

Body_prefixLater ==
    <<"o", "k", " ", "@", "k", "r", "y", "t", "e", "n", "b", "o", "t", " ",
      "s", "e", "t", "v", "e", "r", "s", "i", "o", "n", " ", "m", "a", "j",
      "o", "r">>

Body_recreate == Commands.Recreate

PayloadBodies ==
    {Body_major, Body_bogus, Body_missing, Body_doubleSpace, Body_lgtm,
     Body_leadingSpace, Body_upperCase, Body_prefixLater, Body_rebase, Body_recreate}

Str_fix_typo ==
    <<"f", "i", "x", "-", "t", "y", "p", "o">>

Title_other ==
    <<"F", "i", "x", " ", "t", "y", "p", "o">>

Body_other ==
    <<"F", "i", "x", "e", "s", " ", "a", " ", "t", "y", "p", "o", " ", "i",
      "n", " ", "t", "h", "e", " ", "d", "o", "c", "s", ".">>

\* A pull request of a developer, which the engine did not open
OtherPullRequest ==
    [id |-> 2, number |-> 2, title |-> Title_other, body |-> Body_other,
     labels |-> {}, state |-> "OPEN", baseRefName |-> Str_main,
     headRefName |-> Str_fix_typo, comments |-> <<>>]

\* The release pull request as the push pass opened it for a version
DraftReleasePullRequest(project, version) ==
    [ReleasePullRequest(project, getPullRequestTitle(project, version), <<>>)
        EXCEPT !.body = getPullRequestBody(project, version, FALSE)]

\* The version the push pass computed when it opened the pull request
OpeningVersion(names) ==
    getNextVersion([tags |-> [tags |-> TagRefs(names)],
                    pullRequests |-> [pullRequests |-> <<>>]], Str_patch)

InitComment ==
    /\ \E names \in SeqsUpTo({Tag_1_2_3}, 1) :
          /\ tags = TagRefs(names)
          /\ pullRequests = <<DraftReleasePullRequest(Str_core, OpeningVersion(names)),
                               OtherPullRequest>>
    /\ branches \in
          {<<[id |-> 1, name |-> n, oid |-> 1, manifest |-> m]>> :
              n \in {Str_releasebot_core, getReleaseBranchName(Str_core)},
              m \in {Manifest_core, <<>>}}
    /\ reactions = {}
    /\ pc = "idle"
    /\ payload = [event |-> "none"]
    /\ draftRelease = NoDraftRelease
    /\ versionType = Undefined
    /\ nextVersion = Null
    /\ failed = FALSE
    /\ files = <<>>
    /\ projectsOfRelevance = <<>>
    /\ projectInPass = Undefined
    /\ issued = <<>>
    /\ runs = <<>>

\* The number of comments on all pull requests
RECURSIVE CommentCount(_)
CommentCount(prs) ==
    IF prs = <<>> THEN 0 ELSE Len(prs[1].comments) + CommentCount(Tail(prs))

\* A comment is created on pull request n and run() starts on the
\* issue_comment event
IssueCommentCreated(n, body) ==
    /\ pc \in {"idle", "done"}
    /\ CommentCount(pullRequests) < MaxComments
    /\ LET id == CommentCount(pullRequests) + 1
       IN  /\ pullRequests' =
                [pullRequests EXCEPT ![n].comments =
                    Append(@, [id |-> id, author |-> [login |-> "dev"], body |-> body])]
           /\ payload' =
                [event   |-> "issue_comment",
                 comment |-> [id |-> id, body |-> body],
                 issue   |-> [number |-> pullRequests[n].number,
                              body   |-> pullRequests[n].body]]
    /\ pc' = "issueCommentEvent"
    /\ failed' = FALSE
    /\ versionType' = Undefined
    /\ nextVersion' = Null
    /\ draftRelease' = NoDraftRelease
    /\ issued' = <<>>
    /\ UNCHANGED <<tags, branches, reactions, files, projectsOfRelevance, projectInPass, runs>>

\* issueCommentEvent up to its first await or its return
issueCommentEvent ==
    /\ pc = "issueCommentEvent"
    /\ IF StartsWith(payload.comment.body, Commands.SetVersion)
       THEN /\ versionType' = At(Split(payload.comment.body, " "), 2)
            /\ IF isValidSemverVersionType(At(Split(payload.comment.body, " "), 2))
               THEN pc' = "getNextVersion" /\ failed' = failed
               ELSE pc' = "done" /\ failed' = TRUE
       ELSE /\ versionType' = versionType
            /\ pc' = "done"
            /\ failed' = failed
    /\ UNCHANGED <<tags, branches, pullRequests, reactions, payload, draftRelease,
                   nextVersion, files, projectsOfRelevance, projectInPass,
                   issued, runs>>

\* await githubapi.getNextVersion(octokit, 'core', versionType)
AwaitGetNextVersion ==
    /\ pc = "getNextVersion"
    /\ draftRelease' = findDraftRelease(Str_core)
    /\ nextVersion' = getNextVersion(findDraftRelease(Str_core), versionType)
    /\ pc' = "addReaction"
    /\ UNCHANGED <<tags, branches, pullRequests, reactions, payload, versionType,
                   failed, files, projectsOfRelevance, projectInPass,
                   issued, runs>>

\* await githubapi.addReaction(octokit, commentPayload.comment.id, '+1')
AwaitAddReaction ==
    /\ pc = "addReaction"
    /\ reactions' = reactions \cup {payload.comment.id}
    /\ pc' = "setVersion"
    /\ issued' = Append(issued, [call |-> "addReaction", project |-> Str_core])
    /\ UNCHANGED <<tags, branches, pullRequests, payload, draftRelease, versionType,
                   nextVersion, failed, files, projectsOfRelevance, projectInPass, runs>>

\* setVersion(octokit, project, branch, version): the manifest of the branch
\* is read, patched and committed; a missing branch rejects the read, and
\* the rejection is caught by run(), which fails the run
setVersion(branch, version) ==
    LET hits == {i \in 1..Len(branches) : branches[i].name = branch}
    IN  IF hits = {}
        THEN /\ branches' = branches
             /\ failed' = TRUE
             /\ pc' = "done"
        ELSE LET i == CHOOSE i \in hits : TRUE
             IN  /\ IF Len(branches[i].manifest) > 0
                    THEN /\ branches' =
                              [branches EXCEPT
                                  ![i].manifest = patchPackageJson(@, version),
                                  ![i].oid = @ + 1]
                         /\ failed' = failed
                    ELSE /\ branches' = branches
                         /\ failed' = TRUE
                 /\ pc' = "updatePullRequest"

\* await githubapi.setVersion(octokit, 'core', 'releasebot-core', version)
AwaitSetVersion ==
    /\ pc = "setVersion"
    /\ setVersion(Str_releasebot_core, nextVersion)
    /\ issued' = Append(issued, [call |-> "setVersion", project |-> Str_core])
    /\ UNCHANGED <<tags, pullRequests, reactions, payload, draftRelease, versionType,
                   nextVersion, files, projectsOfRelevance, projectInPass, runs>>

\* updatePullRequest(octokit, pull_number, project, nextVersion)
updatePullRequest(number, project, version) ==
    pullRequests' =
        [i \in 1..Len(pullRequests) |->
            IF pullRequests[i].number = number
            THEN [pullRequests[i] EXCEPT
                    !.title = getPullRequestTitle(project, version),
                    !.body = getPullRequestBody(project, version, FALSE),
                    !.headRefName = getReleaseBranchName(project),
                    !.baseRefName = Str_main,
                    !.labels = @ \cup {Str_release, project}]
            ELSE pullRequests[i]]

\* await githubapi.updatePullRequest(octokit, issue.number, 'core', version)
AwaitUpdatePullRequest ==
    /\ pc = "updatePullRequest"
    /\ updatePullRequest(payload.issue.number, Str_core, nextVersion)
    /\ pc' = "done"
    /\ issued' = Append(issued, [call |-> "updatePullRequest", project |-> Str_core])
    /\ UNCHANGED <<tags, branches, reactions, payload, draftRelease, versionType,
                   nextVersion, failed, files, projectsOfRelevance, projectInPass, runs>>

NextComment ==
    \/ \E n \in 1..Len(pullRequests), body \in PayloadBodies :
          IssueCommentCreated(n, body)
    \/ issueCommentEvent
    \/ AwaitGetNextVersion
    \/ AwaitAddReaction
    \/ AwaitSetVersion
    \/ AwaitUpdatePullRequest

SpecComment == InitComment /\ [][NextComment]_vars

\* A comment that begins with the set-version prefix and whose argument, the
\* third space-separated token, is missing or is not major, minor or patch
InvalidSetVersion(body) ==
    /\ StartsWith(body, Commands.SetVersion)
    /\ At(Split(body, " "), 2) \notin Version

IsSpace(c) == c \in {" ", "\t", "\n", "\r", "\f"}

Str_markerOpen ==
    <<"[", "/", "/", "]", ":">>

Str_markerProject ==
    <<"(", "k", "r", "y", "t", "e", "n", "b", "o", "t", "-", "p", "r", "o",
      "j", "e", "c", "t", ":">>

\* The length of the longest run of word characters of text from position i
RECURSIVE WordRun(_, _)
WordRun(text, i) ==
    IF i <= Len(text) /\ IsWordChar(text[i]) THEN 1 + WordRun(text, i + 1) ELSE 0

\* text.match(/\[\/\/]:\s#\s\(krytenbot-project:(\w+)\)/): the first group of
\* the leftmost match, or null
extractProjectNameFromPR(text) ==
    LET a       == Len(Str_markerOpen)
        b       == Len(Str_markerProject)
        nameAt  == [i \in 1..Len(text) |-> i + a + 3 + b]
        matches ==
            {i \in 1..Len(text) :
                /\ i + a + 3 + b <= Len(text)
                /\ SubSeq(text, i, i + a - 1) = Str_markerOpen
                /\ IsSpace(text[i + a])
                /\ text[i + a + 1] = "#"
                /\ IsSpace(text[i + a + 2])
                /\ SubSeq(text, i + a + 3, i + a + 2 + b) = Str_markerProject
                /\ WordRun(text, nameAt[i]) >= 1
                /\ nameAt[i] + WordRun(text, nameAt[i]) <= Len(text)
                /\ text[nameAt[i] + WordRun(text, nameAt[i])] = ")"}
    IN  IF matches = {} THEN Null
        ELSE LET i == SetMin(matches)
             IN  SubSeq(text, nameAt[i], nameAt[i] + WordRun(text, nameAt[i]) - 1)

\* The body begins, at its first character and case-sensitively, with the
\* literal prefix
HasLiteralPrefix(body, prefix) ==
    /\ Len(body) >= Len(prefix)
    /\ \A i \in 1..Len(prefix) : body[i] = prefix[i]

\* A body that begins with none of the three command prefixes
NotACommand(body) ==
    \A prefix \in {Commands.Rebase, Commands.Recreate, Commands.SetVersion} :
        ~HasLiteralPrefix(body, prefix)

\* C11: a comment body that does not begin, at character 0 and
\* case-sensitively, with one of the three command prefixes (leading
\* whitespace, another case, the prefix later in the text) is not a command:
\* the run on it ends at once, performs no mutation and reports no failure.
C11_OnlyLiteralPrefixIsCommand ==
    [][(pc = "issueCommentEvent" /\ NotACommand(payload.comment.body))
          => (pc' = "done" /\ ~failed' /\ UNCHANGED platform)]_vars

\* Runs on a prefix in another case and on a prefix later in the text have
\* ended without failure and without a reaction
C11_Witness ==
    /\ pc = "done"
    /\ payload.event = "issue_comment"
    /\ payload.comment.body = Body_prefixLater
    /\ \E i \in 1..Len(pullRequests[1].comments) :
          pullRequests[1].comments[i].body = Body_upperCase
    /\ ~failed
    /\ reactions = {}

\* The run in progress handles a comment on an issue or pull request whose
\* body holds no project marker
CommentOffOwnPullRequest ==
    /\ payload.event = "issue_comment"
    /\ pc \notin {"idle", "done"}
    /\ extractProjectNameFromPR(payload.issue.body) = Null

MaxPatches == 2

Prefix_pretty ==
    <<"{", "\n", " ", " ", "\"", "n", "a", "m", "e", "\"", ":", " ", "\"",
      "c", "o", "r", "e", "\"", ",", "\n", " ", " ">>

Prefix_inline ==
    <<"{", "\"", "n", "a", "m", "e", "\"", ":", " ", "\"", "c", "o", "r",
      "e", "\"", ",", " ">>

Prefix_none ==
    <<"{">>

Field_version ==
    <<"\"", "v", "e", "r", "s", "i", "o", "n", "\"", ":", " ", "\"", "0",
      ".", "0", ".", "0", "\"">>

Field_noSpace ==
    <<"\"", "v", "e", "r", "s", "i", "o", "n", "\"", ":", "\"", "0", ".",
      "0", ".", "0", "\"">>

\* A value whose closing quote is missing on its line
Field_unterminated ==
    <<"\"", "v", "e", "r", "s", "i", "o", "n", "\"", ":", " ", "\"", "0",
      ".", "0", ".", "0", "\n">>

Field_other ==
    <<"\"", "v", "e", "r", "\"", ":", " ", "\"", "0", ".", "0", ".", "0",
      "\"">>

Suffix_close ==
    <<"\n", "}">>

Suffix_nextLine ==
    <<",", "\n", " ", " ", "\"", "m", "a", "i", "n", "\"", ":", " ", "\"",
      "x", ".", "j", "s", "\"", "\n", "}">>

Suffix_sameLine ==
    <<",", " ", "\"", "m", "a", "i", "n", "\"", ":", " ", "\"", "x", ".",
      "j", "s", "\"", "}">>

Suffix_secondVersion ==
    <<",", "\n", " ", " ", "\"", "v", "e", "r", "s", "i", "o", "n", "\"",
      ":", " ", "\"", "9", ".", "9", ".", "9", "\"", "\n", "}">>

Version_1_2_4 ==
    <<"1", ".", "2", ".", "4">>

Version_2_0_0 ==
    <<"2", ".", "0", ".", "0">>

Version_10_rc ==
    <<"1", "0", ".", "0", ".", "0", "-", "r", "c", ".", "1">>

ManifestTexts ==
    {p \o f \o s :
        p \in {Prefix_pretty, Prefix_inline, Prefix_none},
        f \in {Field_version, Field_noSpace, Field_unterminated, Field_other},
        s \in {Suffix_close, Suffix_nextLine, Suffix_sameLine, Suffix_secondVersion}}

PatchVersions == {Version_1_2_4, Version_2_0_0, Version_10_rc}

InitPatch ==
    /\ tags = <<>>
    /\ branches \in
          {<<[id |-> 1, name |-> getReleaseBranchName(Str_core), oid |-> 1,
              manifest |-> text]>> : text \in ManifestTexts}
    /\ pullRequests = <<>>
    /\ reactions = {}
    /\ pc = "patch"
    /\ payload = [event |-> "none"]
    /\ draftRelease = NoDraftRelease
    /\ versionType = Str_patch
    /\ nextVersion = Null
    /\ failed = FALSE
    /\ files = <<>>
    /\ projectsOfRelevance = <<>>
    /\ projectInPass = Undefined
    /\ issued = <<>>
    /\ runs = <<>>

\* newFileContents = patchPackageJson(existingFile.content, version), then
\* createCommitOnBranch with the new contents
PatchManifest(version) ==
    /\ pc = "patch"
    /\ branches[1].oid <= MaxPatches
    /\ nextVersion' = version
    /\ branches' = [branches EXCEPT ![1].manifest = patchPackageJson(@, version),
                                    ![1].oid = @ + 1]
    /\ UNCHANGED <<tags, pullRequests, reactions, pc, payload, draftRelease,
                   versionType, failed, files, projectsOfRelevance, projectInPass,
                   issued, runs>>

NextPatch == \E version \in PatchVersions : PatchManifest(version)

SpecPatch == InitPatch /\ [][NextPatch]_vars

\* The manifest text on the release branch
ManifestText == branches[1].manifest

\* The start of the first version field of a text: the first place where the
\* key "version": " is followed, on the same line, by a closing quote
VersionFieldStarts(text) ==
    {i \in 1..(Len(text) - Len(Str_versionKey) + 1) :
        /\ SubSeq(text, i, i + Len(Str_versionKey) - 1) = Str_versionKey
        /\ ClosingQuotes(text, i + Len(Str_versionKey)) # {}}

HasVersionField(text) == VersionFieldStarts(text) # {}

\* The first position of the value of the first version field
ValueFirst(text) == SetMin(VersionFieldStarts(text)) + Len(Str_versionKey)

\* The position of the quote that closes the value: the next quote
ValueClose(text) == SetMin(ClosingQuotes(text, ValueFirst(text)))

VersionFieldValue(text) == SubSeq(text, ValueFirst(text), ValueClose(text) - 1)

\* The text with the value of its first version field replaced, and every
\* other character kept
OnlyValueReplaced(text, version) ==
    SubSeq(text, 1, ValueFirst(text) - 1) \o version
       \o SubSeq(text, ValueClose(text), Len(text))

\* C12: a version-bump commit replaces only the value of the first version
\* field of the manifest: every character outside that value is kept, in
\* place, other content on the line of the field and later version fields
\* included.
C12_PatchTouchesOnlyVersionValue ==
    [][\A version \in PatchVersions :
          (PatchManifest(version) /\ HasVersionField(ManifestText))
             => ManifestText' = OnlyValueReplaced(ManifestText, version)]_vars

\* C13: patching twice is last-write-wins: after a patch with a first version,
\* a second patch with any version gives the text a single patch of the
\* earlier text with that version gives, and the version field of a patched
\* text is exactly the version written.
C13_PatchTwiceIsLastWriteWins ==
    [][\A v1 \in PatchVersions :
          PatchManifest(v1) =>
             /\ \A v2 \in PatchVersions :
                   patchPackageJson(ManifestText', v2) = patchPackageJson(ManifestText, v2)
             /\ HasVersionField(ManifestText) =>
                   /\ HasVersionField(ManifestText')
                   /\ VersionFieldValue(ManifestText') = v1]_vars

\* A manifest with other content on the line of its version field has been
\* patched twice, with two different versions
C13_Witness ==
    /\ pc = "patch"
    /\ branches[1].oid = 3
    /\ nextVersion = Version_2_0_0
    /\ HasVersionField(ManifestText)
    /\ VersionFieldValue(ManifestText) = Version_2_0_0
    /\ ManifestText = Prefix_inline \o Str_versionKey \o Version_2_0_0 \o <<"\"", "}">>

(***************************************************************************)
(* SpecPush: the push trigger. Commits are pushed to main, run() starts    *)
(* pushEvent, and the awaited calls of the pass are taken one at a time,   *)
(* project by project. Between runs a tag may be created for a release.    *)
(* A branch is a record of its head (oid), the commit of main it is based  *)
(* on (base), the number of its own commits on top of the base (ahead) and *)
(* the text of its project's manifest; main is the first branch.           *)
(***************************************************************************)
MaxPushes == 2

\* const DAYS_OLD = 30
DAYS_OLD == 30

Str_refsHeads ==
    <<"r", "e", "f", "s", "/", "h", "e", "a", "d", "s", "/">>

PackageJsonHead ==
    <<"{", "\n", " ", " ", "\"", "n", "a", "m", "e", "\"", ":", " ", "\"">>

PackageJsonTail ==
    <<"\"", ",", "\n", " ", " ", "\"", "v", "e", "r", "s", "i", "o", "n",
      "\"", ":", " ", "\"", "0", ".", "0", ".", "0", "\"", "\n", "}">>

\* The text of <project>/package.json on main
PackageJson(p) == PackageJsonHead \o p \o PackageJsonTail

SetMax(S) == CHOOSE x \in S : \A y \in S : y <= x

\* The object id of a new commit
FreshOid(brs) == 1 + SetMax({brs[i].oid : i \in 1..Len(brs)})

\* The positions of the branches with a name
BranchesNamed(brs, name) == {i \in 1..Len(brs) : brs[i].name = name}

\* The days on which a run may start
Days == {0, DAYS_OLD + 1}

\* The changed files of a push
Pushes ==
    {<<File_core_a>>, <<File_grid_b>>, <<File_core_a, File_grid_b>>, <<File_docs>>}

MainBranch(oid) ==
    [id |-> 0, name |-> Str_main, oid |-> oid, base |-> oid, ahead |-> 0,
     manifest |-> <<>>]

\* The repository after one push pass opened the draft release of core
BranchOfCore ==
    [id |-> 1, name |-> getReleaseBranchName(Str_core), oid |-> 2, base |-> 1,
     ahead |-> 1,
     manifest |-> patchPackageJson(PackageJson(Str_core), getDefaultNextVersion)]

PullRequestOfCore ==
    [id |-> 1, number |-> 1,
     title |-> getPullRequestTitle(Str_core, getDefaultNextVersion),
     body |-> getPullRequestBody(Str_core, getDefaultNextVersion, FALSE),
     labels |-> {Str_release, Str_core}, state |-> "OPEN",
     baseRefName |-> Str_main, headRefName |-> getReleaseBranchName(Str_core),
     createdAt |-> 0, comments |-> <<>>]

InitPush ==
    /\ tags = <<>>
    /\ \/ /\ branches = <<MainBranch(1)>>
          /\ pullRequests = <<>>
       \/ /\ branches = <<MainBranch(1), BranchOfCore>>
          /\ pullRequests = <<PullRequestOfCore>>
    /\ reactions = {}
    /\ pc = "idle"
    /\ payload = [event |-> "none", run |-> 0, day |-> 0]
    /\ draftRelease = NoDraftRelease
    /\ versionType = Str_patch
    /\ nextVersion = Null
    /\ failed = FALSE
    /\ files = <<>>
    /\ projectsOfRelevance = <<>>
    /\ projectInPass = Undefined
    /\ issued = <<>>
    /\ runs = <<>>

\* Commits are pushed to main and run() starts on the push event
PushCreated(fs, day) ==
    /\ pc \in {"idle", "done"}
    /\ payload.run < MaxPushes
    /\ day >= payload.day
    /\ branches' = [branches EXCEPT ![1].oid = FreshOid(branches),
                                    ![1].base = FreshOid(branches)]
    /\ payload' = [event |-> "push", ref |-> Str_refsHeads \o Str_main,
                   after |-> FreshOid(branches), commits |-> fs,
                   run |-> payload.run + 1, day |-> day]
    /\ pc' = "pushEvent"
    /\ failed' = FALSE
    /\ draftRelease' = NoDraftRelease
    /\ nextVersion' = Null
    /\ files' = <<>>
    /\ projectsOfRelevance' = <<>>
    /\ projectInPass' = Undefined
    /\ issued' = <<>>
    /\ UNCHANGED <<tags, pullRequests, reactions, versionType, runs>>

\* A release is published: its tag is created
TagCreated(name) ==
    /\ pc \in {"idle", "done"}
    /\ Len(tags) < MaxTags
    /\ \A i \in 1..Len(tags) : tags[i].name # name
    /\ tags' = Append(tags, [id |-> Len(tags) + 1, name |-> name])
    /\ UNCHANGED <<branches, pullRequests, reactions, pc, payload, draftRelease,
                   versionType, nextVersion, failed, files, projectsOfRelevance,
                   projectInPass,
                   issued, runs>>

\* pushEvent: listPushCommitFiles, listProjectsOfRelevance and the entry of
\* the loop over the projects
pushEvent ==
    /\ pc = "pushEvent"
    /\ files' = payload.commits
    /\ projectsOfRelevance' = listProjectsOfRelevance(payload.commits)
    /\ IF listProjectsOfRelevance(payload.commits) = <<>>
       THEN pc' = "done" /\ projectInPass' = projectInPass
       ELSE /\ pc' = "findDraftRelease"
            /\ projectInPass' = listProjectsOfRelevance(payload.commits)[1]
    /\ UNCHANGED <<tags, branches, pullRequests, reactions, payload, draftRelease,
                   versionType, nextVersion, failed,
                   issued, runs>>

\* The position after the branch step: the pull request is created when the
\* draft release holds none, and the branch is updated otherwise
PullRequestStep(d) ==
    IF Len(d.pullRequests.pullRequests) = 0
    THEN "createDraftReleasePullRequest"
    ELSE "updateDraftReleaseBranch"

\* findDraftRelease, getNextVersion(draftRelease, 'patch') and the test on
\* the branches of the draft release
AwaitFindDraftRelease ==
    /\ pc = "findDraftRelease"
    /\ draftRelease' = findDraftRelease(projectInPass)
    /\ nextVersion' = getNextVersion(findDraftRelease(projectInPass), Str_patch)
    /\ pc' = IF ~\E i \in 1..Len(findDraftRelease(projectInPass).branches.branches) :
                   findDraftRelease(projectInPass).branches.branches[i].name
                      = Str_krytenbot \o <<"-">> \o projectInPass
             THEN "createDraftReleaseBranch"
             ELSE PullRequestStep(findDraftRelease(projectInPass))
    /\ UNCHANGED <<tags, branches, pullRequests, reactions, payload, versionType,
                   failed, files, projectsOfRelevance, projectInPass,
                   issued, runs>>

\* The call is issued again after a rejection
Throw_Retry ==
    /\ failed' = failed
    /\ pc' = pc

\* The exception is swallowed: the run is failed and the pass goes on
Throw_Swallowed ==
    /\ failed' = TRUE
    /\ pc' = IF pc \in {"createDraftReleaseBranch", "setDraftReleaseBranchVersion"}
             THEN "createDraftReleasePullRequest"
             ELSE "done"

\* A rejected platform call: the exception reaches the catch of run(), which
\* fails the run; no later step of the run is taken
Throw ==
    /\ failed' = TRUE
    /\ pc' = "done"

\* createRef creates a ref only where no ref of that name exists
CreateRefAccepted_Always(brs, name) ==
    TRUE

CreateRefAccepted(brs, name) ==
    BranchesNamed(brs, name) = {}

\* createReleaseBranch: createRef(refs/heads/<release branch>, context.sha)
createReleaseBranch(p) ==
    IF ~CreateRefAccepted(branches, getReleaseBranchName(p))
    THEN branches' = branches /\ Throw
    ELSE /\ branches' =
              Append(branches,
                     [id |-> Len(branches), name |-> getReleaseBranchName(p),
                      oid |-> payload.after, base |-> payload.after, ahead |-> 0,
                      manifest |-> PackageJson(p)])
         /\ failed' = failed
         /\ pc' = "setDraftReleaseBranchVersion"

AwaitCreateDraftReleaseBranch ==
    /\ pc = "createDraftReleaseBranch"
    /\ createReleaseBranch(projectInPass)
    /\ issued' = Append(issued, [call |-> "createRef", project |-> projectInPass])
    /\ UNCHANGED <<tags, pullRequests, reactions, payload, draftRelease, versionType,
                   nextVersion, files, projectsOfRelevance, projectInPass, runs>>

\* createCommitOnBranch applies the commit only on the expected head
CommitAccepted_Always(branch, expectedHeadOid) ==
    TRUE

CommitAccepted(branch, expectedHeadOid) ==
    branch.oid = expectedHeadOid

\* The commit holds the file as it was read, not the patched text
setReleaseBranchVersion_KeepsFile(p, version, sha) ==
    LET hits == BranchesNamed(branches, getReleaseBranchName(p))
    IN  IF hits = {}
        THEN branches' = branches /\ Throw
        ELSE LET i == CHOOSE i \in hits : TRUE
             IN  IF ~CommitAccepted(branches[i], sha)
                 THEN branches' = branches /\ Throw
                 ELSE /\ branches' =
                           [branches EXCEPT
                               ![i].oid = FreshOid(branches),
                               ![i].ahead = @ + 1]
                      /\ failed' = failed
                      /\ pc' = PullRequestStep(draftRelease)

\* The commit without the test of the expected head
setReleaseBranchVersion_Unchecked(p, version, sha) ==
    LET hits == BranchesNamed(branches, getReleaseBranchName(p))
    IN  IF hits = {}
        THEN branches' = branches /\ Throw
        ELSE LET i == CHOOSE i \in hits : TRUE
             IN  /\ branches' =
                      [branches EXCEPT
                          ![i].manifest = patchPackageJson(@, version),
                          ![i].oid = FreshOid(branches),
                          ![i].ahead = @ + 1]
                 /\ failed' = failed
                 /\ pc' = PullRequestStep(draftRelease)

\* setReleaseBranchVersion: the manifest of the release branch is read,
\* patched and committed on the branch with expectedHeadOid = sha
setReleaseBranchVersion(p, version, sha) ==
    LET hits == BranchesNamed(branches, getReleaseBranchName(p))
    IN  IF hits = {}
        THEN branches' = branches /\ Throw
        ELSE LET i == CHOOSE i \in hits : TRUE
             IN  IF ~CommitAccepted(branches[i], sha)
                 THEN branches' = branches /\ Throw
                 ELSE /\ branches' =
                           [branches EXCEPT
                               ![i].manifest = patchPackageJson(@, version),
                               ![i].oid = FreshOid(branches),
                               ![i].ahead = @ + 1]
                      /\ failed' = failed
                      /\ pc' = PullRequestStep(draftRelease)

\* The sha setDraftReleaseBranchVersion passes on: the triggering commit, at
\* which the release branch was created
DraftReleaseBranchSha == payload.after

AwaitSetDraftReleaseBranchVersion ==
    /\ pc = "setDraftReleaseBranchVersion"
    /\ setReleaseBranchVersion(projectInPass, nextVersion, DraftReleaseBranchSha)
    /\ issued' = Append(issued, [call |-> "createCommitOnBranch", project |-> projectInPass])
    /\ UNCHANGED <<tags, pullRequests, reactions, payload, draftRelease, versionType,
                   nextVersion, files, projectsOfRelevance, projectInPass, runs>>

\* The step after the pass of a project: the next project of the loop, or
\* the end of the run
EndOfProject ==
    LET i == CHOOSE i \in 1..Len(projectsOfRelevance) :
                 projectsOfRelevance[i] = projectInPass
    IN  IF i < Len(projectsOfRelevance)
        THEN pc' = "findDraftRelease" /\ projectInPass' = projectsOfRelevance[i + 1]
        ELSE pc' = "done" /\ projectInPass' = projectInPass

\* createPullRequest, first call: the createPullRequest mutation
createPullRequest(p, branch, version) ==
    IF \E i \in 1..Len(pullRequests) :
          /\ pullRequests[i].state = "OPEN"
          /\ pullRequests[i].headRefName = getReleaseBranchName(p)
          /\ pullRequests[i].baseRefName = branch
    THEN /\ pullRequests' = pullRequests
         /\ projectInPass' = projectInPass
         /\ Throw
    ELSE /\ pullRequests' =
              Append(pullRequests,
                     [id |-> Len(pullRequests) + 1, number |-> Len(pullRequests) + 1,
                      title |-> getPullRequestTitle(p, version),
                      body |-> getPullRequestBody(p, version, FALSE),
                      labels |-> {}, state |-> "OPEN",
                      baseRefName |-> branch,
                      headRefName |-> getReleaseBranchName(p),
                      createdAt |-> payload.day, comments |-> <<>>])
         /\ projectInPass' = projectInPass
         /\ failed' = failed
         /\ pc' = "updatePullRequestLabels"

AwaitCreateDraftReleasePullRequest ==
    /\ pc = "createDraftReleasePullRequest"
    /\ createPullRequest(projectInPass,
                         Substring(payload.ref, Len(Str_refsHeads)),
                         nextVersion)
    /\ issued' = Append(issued, [call |-> "createPullRequest", project |-> projectInPass])
    /\ UNCHANGED <<tags, branches, reactions, payload, draftRelease, versionType,
                   nextVersion, files, projectsOfRelevance, runs>>

\* No labels: the pull request is created as the earlier helper created it
PullRequestLabels_None(d) == {}

\* labelIds: [draftRelease.releaseLabel.id, draftRelease.projectLabel.id]
PullRequestLabels(d) == {d.releaseLabel.name, d.projectLabel.name}

\* createPullRequest, second call: the labels of the pull request it created
AwaitUpdatePullRequestLabels ==
    /\ pc = "updatePullRequestLabels"
    /\ pullRequests' = [pullRequests EXCEPT
                           ![Len(pullRequests)].labels = PullRequestLabels(draftRelease)]
    /\ EndOfProject
    /\ issued' = Append(issued, [call |-> "updatePullRequestLabels", project |-> projectInPass])
    /\ UNCHANGED <<tags, branches, reactions, payload, draftRelease, versionType,
                   nextVersion, failed, files, projectsOfRelevance, runs>>

\* recreateReleaseBranch in the place of updateReleaseBranch: the head branch
\* of the pull request is forced to context.sha
updateReleaseBranch_Recreate(d) ==
    LET pr   == CHOOSE pr \in {pullRequests[i] : i \in 1..Len(pullRequests)} :
                    pr.id = d.pullRequests.pullRequests[1].id
        head == CHOOSE i \in BranchesNamed(branches, pr.headRefName) : TRUE
    IN  /\ branches' = [branches EXCEPT ![head].base = payload.after,
                                        ![head].oid = payload.after,
                                        ![head].ahead = 0,
                                        ![head].manifest = PackageJson(projectInPass)]
        /\ failed' = failed
        /\ EndOfProject

\* updateReleaseBranch: updatePullRequestBranch(REBASE) on the first pull
\* request of the draft release. The head branch of the pull request is
\* replayed on the head of its base branch; the platform rejects the call
\* when the head branch already holds the head of the base.
updateReleaseBranch(d) ==
    LET pr   == CHOOSE pr \in {pullRequests[i] : i \in 1..Len(pullRequests)} :
                    pr.id = d.pullRequests.pullRequests[1].id
        head == CHOOSE i \in BranchesNamed(branches, pr.headRefName) : TRUE
        base == CHOOSE i \in BranchesNamed(branches, pr.baseRefName) : TRUE
    IN  IF branches[head].base = branches[base].oid
        THEN /\ branches' = branches
             /\ projectInPass' = projectInPass
             /\ Throw
        ELSE /\ branches' = [branches EXCEPT ![head].base = branches[base].oid,
                                             ![head].oid = FreshOid(branches)]
             /\ failed' = failed
             /\ EndOfProject

AwaitUpdateDraftReleaseBranch ==
    /\ pc = "updateDraftReleaseBranch"
    /\ updateReleaseBranch(draftRelease)
    /\ issued' = Append(issued, [call |-> "updatePullRequestBranch", project |-> projectInPass])
    /\ UNCHANGED <<tags, pullRequests, reactions, payload, draftRelease, versionType,
                   nextVersion, files, projectsOfRelevance, runs>>

NextPush ==
    \/ \E fs \in Pushes, day \in Days : PushCreated(fs, day)
    \/ TagCreated(Tag_1_2_3)
    \/ pushEvent
    \/ AwaitFindDraftRelease
    \/ AwaitCreateDraftReleaseBranch
    \/ AwaitSetDraftReleaseBranchVersion
    \/ AwaitCreateDraftReleasePullRequest
    \/ AwaitUpdatePullRequestLabels
    \/ AwaitUpdateDraftReleaseBranch

SpecPush == InitPush /\ [][NextPush]_vars

PushDone == pc = "done" /\ payload.event = "push"

\* The positions of a run inside the pass of a project
PassSteps ==
    {"findDraftRelease", "createDraftReleaseBranch", "setDraftReleaseBranchVersion",
     "createDraftReleasePullRequest", "updatePullRequestLabels",
     "updateDraftReleaseBranch"}

\* The step that ends the pass of the project in pass
PassEnds == pc \in PassSteps /\ (pc' = "done" \/ projectInPass' # projectInPass)

\* The pass in progress read a draft release without tags and without a
\* release branch; a project without a release branch has no pull request
StartedFresh ==
    /\ pc \in PassSteps \ {"findDraftRelease"}
    /\ draftRelease.tags.tags = <<>>
    /\ draftRelease.branches.branches = <<>>

\* The open pull requests of the release branch of a project
OpenPullRequests(prs, p) ==
    {i \in 1..Len(prs) :
        prs[i].state = "OPEN" /\ prs[i].headRefName = getReleaseBranchName(p)}

\* The draft release of a project is opened at the first version: its branch
\* sits on the pushed commit with one commit that sets the version, and one
\* open pull request onto the pushed branch carries the title and the labels
OpenedAtFirstVersion(p, brs, prs, push) ==
    /\ Cardinality(BranchesNamed(brs, getReleaseBranchName(p))) = 1
    /\ \A i \in BranchesNamed(brs, getReleaseBranchName(p)) :
          /\ brs[i].base = push.after
          /\ brs[i].ahead = 1
          /\ HasVersionField(brs[i].manifest)
          /\ VersionFieldValue(brs[i].manifest) = getDefaultNextVersion
    /\ Cardinality(OpenPullRequests(prs, p)) = 1
    /\ \A i \in OpenPullRequests(prs, p) :
          /\ prs[i].baseRefName = Substring(push.ref, Len(Str_refsHeads))
          /\ prs[i].title = getPullRequestTitle(p, getDefaultNextVersion)
          /\ prs[i].labels = {Str_release, p}

\* C14: a push pass for a relevant project that has no tags, no release
\* branch and no open release pull request ends, without failing, with the
\* release branch created at the head of the push, one commit on it setting
\* the manifest version to 0.0.1, and one open pull request from the release
\* branch onto the pushed branch, titled with the project and v0.0.1 and
\* carrying the release label and the project label.
C14_FreshPassOpensDraftRelease ==
    [][(StartedFresh /\ PassEnds)
          => /\ ~failed'
             /\ OpenedAtFirstVersion(projectInPass, branches', pullRequests',
                                     payload')]_vars

\* The age in days, at the start of the run, of the open pull requests of the
\* release branch of a project
PullRequestAges(p) ==
    {payload.day - pullRequests[i].createdAt : i \in OpenPullRequests(pullRequests, p)}

\* The pass in progress is on a project whose release branch exists and
\* whose pull request is open
OnOpenPullRequest ==
    /\ pc \in PassSteps \ {"findDraftRelease"}
    /\ \E i \in 1..Len(draftRelease.branches.branches) :
          draftRelease.branches.branches[i].name = getReleaseBranchName(projectInPass)
    /\ OpenPullRequests(pullRequests, projectInPass) # {}

\* ... and the pull request is not older than DAYS_OLD days
OnFreshPullRequest ==
    OnOpenPullRequest /\ \A age \in PullRequestAges(projectInPass) : age <= DAYS_OLD

\* C15: a push pass on a project with a release branch and an open, fresh
\* pull request ends, without failing, with the title and the body of that
\* pull request at the freshly computed version, and with no new branch and
\* no new pull request; a second pass with unchanged tags and comments thus
\* leaves the title and the body as the first left them.
C15_FreshPassUpdatesPullRequest ==
    [][(OnFreshPullRequest /\ PassEnds)
          => /\ ~failed'
             /\ Cardinality(BranchesNamed(branches', getReleaseBranchName(projectInPass))) = 1
             /\ Cardinality(OpenPullRequests(pullRequests', projectInPass)) = 1
             /\ \A i \in OpenPullRequests(pullRequests', projectInPass) :
                   /\ pullRequests'[i].title
                         = getPullRequestTitle(projectInPass, nextVersion)
                   /\ pullRequests'[i].body
                         = getPullRequestBody(projectInPass, nextVersion, FALSE)]_vars

\* ... and the pull request is older than DAYS_OLD days
OnStalePullRequest ==
    OnOpenPullRequest /\ \E age \in PullRequestAges(projectInPass) : age > DAYS_OLD

Str_note ==
    <<">", " ", "[", "!", "N", "O", "T", "E", "]", "\n", ">", " ">>

\* markdown.note(message)
note(message) == Str_note \o message

Str_olderThan ==
    <<"B", "r", "a", "n", "c", "h", " ", "i", "s", " ", "n", "o", "w", " ",
      "o", "l", "d", "e", "r", " ", "t", "h", "a", "n", " ", "t", "h", "e",
      " ">>

Str_dayLimit ==
    <<" ", "d", "a", "y", " ", "l", "i", "m", "i", "t", ".", " ", "P", "l",
      "e", "a", "s", "e", " ", "m", "a", "n", "u", "a", "l", "l", "y", " ",
      Backtick, "r", "e", "c", "r", "e", "a", "t", "e", Backtick, " ", "a", "n", "d",
      " ", "m", "e", "r", "g", "e", " ", "i", "t", " ", "w", "h", "e", "n",
      " ", "r", "e", "a", "d", "y", ".">>

\* The notice for a pull request older than the limit
StaleNotice == note(Str_olderThan \o NumStr(DAYS_OLD) \o Str_dayLimit)

\* The stale notices in the thread of a pull request
StaleNotices(pr) == {j \in 1..Len(pr.comments) : pr.comments[j].body = StaleNotice}

\* The pull requests without their threads
WithoutComments(prs) == [i \in 1..Len(prs) |-> [prs[i] EXCEPT !.comments = <<>>]]

\* C16: a push pass on a pull request older than the staleness threshold
\* never rebases or moves the release branch: its only effect is the stale
\* notice in the thread of the pull request.
C16_StalePassLeavesBranch ==
    [][OnStalePullRequest
          => /\ UNCHANGED <<tags, branches, reactions>>
             /\ WithoutComments(pullRequests') = WithoutComments(pullRequests)]_vars

\* C17: after a push pass on a stale pull request, and after any number of
\* such passes in a row, the thread of the pull request carries exactly one
\* stale notice.
C17_OneStaleNotice ==
    [][(OnStalePullRequest /\ PassEnds)
          => \A i \in OpenPullRequests(pullRequests', projectInPass) :
                Cardinality(StaleNotices(pullRequests'[i])) = 1]_vars

\* A step of the engine
EngineStep == pc \in {"pushEvent"} \cup PassSteps

\* The commit of a version bump on a branch
IsVersionBump(old, new) ==
    /\ new.base = old.base
    /\ new.ahead = old.ahead + 1
    /\ new.oid > old.oid
    /\ new.manifest = patchPackageJson(old.manifest, nextVersion)

\* The rebase of a branch on the head of main; a branch without commits of
\* its own is fast-forwarded
IsRebase(old, new) ==
    /\ new.base = branches[1].oid
    /\ new.base > old.base
    /\ new.ahead = old.ahead
    /\ new.manifest = old.manifest
    /\ new.oid > old.oid

\* C18: no step of the engine deletes a release branch: every branch is kept
\* under its name, and a step that moves a branch is a rebase, a
\* fast-forward or the commit of a version bump.
C18_NoBranchDeleted ==
    [][EngineStep
          => /\ Len(branches') >= Len(branches)
             /\ \A i \in 2..Len(branches) :
                   /\ branches'[i].name = branches[i].name
                   /\ branches'[i].id = branches[i].id
                   /\ \/ branches'[i] = branches[i]
                      \/ IsVersionBump(branches[i], branches'[i])
                      \/ IsRebase(branches[i], branches'[i])]_vars

\* Two push runs have ended: the branch of core has been rebased on the
\* second push and the branch of grid has been created and bumped
C18_Witness ==
    /\ PushDone
    /\ ~failed
    /\ payload.run = 2
    /\ Len(branches) = 3
    /\ branches[2].name = getReleaseBranchName(Str_core)
    /\ branches[2].base = payload.after
    /\ branches[2].ahead = 1
    /\ VersionFieldValue(branches[2].manifest) = getDefaultNextVersion
    /\ branches[3].name = getReleaseBranchName(Str_grid)
    /\ branches[3].ahead = 1

\* The steps of a pass between the read of the draft release and the
\* creation of a pull request
BeforePullRequest ==
    {"createDraftReleaseBranch", "setDraftReleaseBranchVersion",
     "createDraftReleasePullRequest", "updateDraftReleaseBranch"}

MaxVersionPart == 2

\* The versions major.minor.patch with every part up to the bound
MarkerVersions ==
    {NumStr(a) \o <<".">> \o NumStr(b) \o <<".">> \o NumStr(c) :
        a \in 0..MaxVersionPart, b \in 0..MaxVersionPart, c \in 0..MaxVersionPart}

\* Bodies written by developers: none holds the marker of a project
Body_hyphenMarker == hidden(Str_krytenbot \o <<"-", "s", "t", "a", "r", "t">>)

UnmarkedBodies == {<<>>, Body_other, Body_major, Body_hyphenMarker}

InitMarker ==
    /\ tags = <<>>
    /\ branches = <<>>
    /\ pullRequests = <<>>
    /\ reactions = {}
    /\ pc = "idle"
    /\ payload = [event |-> "none"]
    /\ draftRelease = NoDraftRelease
    /\ versionType = Undefined
    /\ nextVersion = Null
    /\ failed = FALSE
    /\ files = <<>>
    /\ projectsOfRelevance = <<>>
    /\ projectInPass = Undefined
    /\ issued = <<>>
    /\ runs = <<>>

\* The engine writes the body of the release pull request of a project, and
\* a comment on the pull request starts a run
MarkedBodyWritten(p, version, rebasing) ==
    /\ pc = "idle"
    /\ pullRequests' =
          <<[DraftReleasePullRequest(p, version)
                EXCEPT !.body = getPullRequestBody(p, version, rebasing)]>>
    /\ payload' = [event |-> "issue_comment",
                   comment |-> [id |-> 1, body |-> Body_lgtm],
                   issue |-> [number |-> 1,
                              body |-> getPullRequestBody(p, version, rebasing)]]
    /\ nextVersion' = version
    /\ pc' = "issueCommentEvent"
    /\ UNCHANGED <<tags, branches, reactions, draftRelease, versionType, failed, files,
                   projectsOfRelevance, projectInPass, issued, runs>>

\* A developer writes the body of a pull request, and a comment on the pull
\* request starts a run
UnmarkedBodyWritten(body) ==
    /\ pc = "idle"
    /\ pullRequests' = <<[OtherPullRequest EXCEPT !.body = body]>>
    /\ payload' = [event |-> "issue_comment",
                   comment |-> [id |-> 1, body |-> Body_lgtm],
                   issue |-> [number |-> 2, body |-> body]]
    /\ pc' = "issueCommentEvent"
    /\ UNCHANGED <<tags, branches, reactions, draftRelease, versionType, nextVersion,
                   failed, files, projectsOfRelevance, projectInPass, issued, runs>>

\* const project = githubapi.extractProjectNameFromPR(commentPayload.issue.body)
ExtractProject ==
    /\ pc = "issueCommentEvent"
    /\ projectInPass' = extractProjectNameFromPR(payload.issue.body)
    /\ pc' = "done"
    /\ UNCHANGED <<tags, branches, pullRequests, reactions, payload, draftRelease,
                   versionType, nextVersion, failed, files, projectsOfRelevance,
                   issued, runs>>

NextMarker ==
    \/ \E p \in {projects[i] : i \in 1..Len(projects)}, version \in MarkerVersions,
          rebasing \in BOOLEAN : MarkedBodyWritten(p, version, rebasing)
    \/ \E body \in UnmarkedBodies : UnmarkedBodyWritten(body)
    \/ ExtractProject

SpecMarker == InitMarker /\ [][NextMarker]_vars

\* C21: the marker round trip: the project read back from a body that
\* getPullRequestBody wrote for a configured project, any version and either
\* value of the rebasing flag is that project, and the project read from a
\* body without a marker is none.
C21_MarkerRoundTrip ==
    pc = "done"
       => /\ \A p \in {projects[i] : i \in 1..Len(projects)} :
                \A rebasing \in BOOLEAN :
                   payload.issue.body = getPullRequestBody(p, nextVersion, rebasing)
                      => projectInPass = p
          /\ payload.issue.body \in UnmarkedBodies => projectInPass = Null

\* The project grid has been read back from a body with the rebasing banner
C21_Witness ==
    /\ pc = "done"
    /\ projectInPass = Str_grid
    /\ payload.issue.body
          = getPullRequestBody(Str_grid, <<"2", ".", "1", ".", "0">>, TRUE)

(***************************************************************************)
(* The commands of the comment trigger, on SpecComment.                    *)
(***************************************************************************)
\* The step that ends a run on a comment
CommentRunEnds ==
    payload.event = "issue_comment" /\ pc \notin {"idle", "done"} /\ pc' = "done"

\* The comment is on a pull request of the engine: its body names a project
CommentOnOwnPullRequest ==
    /\ payload.event = "issue_comment"
    /\ extractProjectNameFromPR(payload.issue.body) # Null

\* The calls of a log, in order
Calls(log) == [i \in 1..Len(log) |-> log[i].call]

\* The names of the branches and the numbers of the open pull requests
BranchNames(brs) == {brs[i].name : i \in 1..Len(brs)}

OpenNumbers(prs) == {prs[i].number : i \in {j \in 1..Len(prs) : prs[j].state = "OPEN"}}

\* The release branch of a project exists and holds a manifest with a version
HasReleaseBranch(p) ==
    /\ BranchesNamed(branches, getReleaseBranchName(p)) # {}
    /\ \A i \in BranchesNamed(branches, getReleaseBranchName(p)) :
          HasVersionField(branches[i].manifest)

\* The comment is a set-version command with a supported argument
ValidSetVersion(body) ==
    /\ StartsWith(body, Commands.SetVersion)
    /\ At(Split(body, " "), 2) \in Version

\* C22: a run on a valid set-version comment on the engine's pull request of
\* a project issues, in this order, a reaction on the comment, one
\* version-bump commit on the release branch of the project and an update of
\* the pull request; it ends without failure with the reaction on the
\* comment, the resolved version in the manifest of the release branch and
\* in the title of the pull request, and the same branches and open pull
\* requests as before.
C22_SetVersionInPlace ==
    [][(CommentRunEnds /\ CommentOnOwnPullRequest
          /\ ValidSetVersion(payload.comment.body)
          /\ HasReleaseBranch(extractProjectNameFromPR(payload.issue.body)))
          => LET p == extractProjectNameFromPR(payload.issue.body)
             IN  /\ ~failed'
                 /\ Calls(issued') = <<"addReaction", "setVersion", "updatePullRequest">>
                 /\ payload.comment.id \in reactions'
                 /\ \A i \in BranchesNamed(branches', getReleaseBranchName(p)) :
                       /\ HasVersionField(branches'[i].manifest)
                       /\ VersionFieldValue(branches'[i].manifest) = nextVersion'
                 /\ \A i \in 1..Len(pullRequests') :
                       pullRequests'[i].number = payload.issue.number
                          => pullRequests'[i].title = getPullRequestTitle(p, nextVersion')
                 /\ BranchNames(branches') = BranchNames(branches)
                 /\ OpenNumbers(pullRequests') = OpenNumbers(pullRequests)]_vars

\* The comment is a rebase command
IsRebase_Command(body) == StartsWith(body, Commands.Rebase)

\* The comment is a recreate command
IsRecreate_Command(body) == StartsWith(body, Commands.Recreate)

\* The pull request a comment was posted on
CommentedPullRequests(prs) == {i \in 1..Len(prs) : prs[i].number = payload.issue.number}

\* C23: a run on a rebase command on the engine's pull request of a project
\* whose release branch exists issues, in this order, a reaction, an update
\* of the pull request body that carries the rebasing banner, the rebase of
\* the release branch on the base branch, the force-push and an update of
\* the body without the banner; it ends without failure, with the reaction
\* on the comment and the body without the banner.
C23_RebaseCommandOrder ==
    [][(CommentRunEnds /\ CommentOnOwnPullRequest
          /\ IsRebase_Command(payload.comment.body)
          /\ HasReleaseBranch(extractProjectNameFromPR(payload.issue.body)))
          => LET p == extractProjectNameFromPR(payload.issue.body)
             IN  /\ ~failed'
                 /\ Calls(issued') = <<"addReaction", "updatePullRequest", "rebaseBranch",
                                       "push", "updatePullRequest">>
                 /\ payload.comment.id \in reactions'
                 /\ \A i \in CommentedPullRequests(pullRequests') :
                       \E version \in {nextVersion', getNextVersion(findDraftRelease(p), Str_patch)} :
                          pullRequests'[i].body = getPullRequestBody(p, version, FALSE)]_vars

Str_caution ==
    <<">", " ", "[", "!", "C", "A", "U", "T", "I", "O", "N", "]", "\n", ">",
      " ">>

\* markdown.caution(message)
caution(message) == Str_caution \o message

Str_failedToRebase ==
    <<"F", "a", "i", "l", "e", "d", " ", "t", "o", " ", "r", "e", "b", "a",
      "s", "e", " ", "t", "h", "e", " ", "b", "r", "a", "n", "c", "h", ".",
      " ", "P", "l", "e", "a", "s", "e", " ", "e", "i", "t", "h", "e", "r",
      " ", "m", "a", "n", "u", "a", "l", "l", "y", " ", "r", "e", "b", "a",
      "s", "e", " ", "i", "t", " ", "o", "r", " ", "u", "s", "e", " ", "t",
      "h", "e", " ", Backtick, "r", "e", "c", "r", "e", "a", "t", "e", Backtick, " ",
      "c", "o", "m", "m", "a", "n", "d", ".">>

\* The comment posted when the rebase of a rebase command fails
RebaseFailedNotice == caution(Str_failedToRebase)

C25_RecreateResetsBranch ==
    [][(CommentRunEnds /\ CommentOnOwnPullRequest
          /\ IsRecreate_Command(payload.comment.body)
          /\ HasReleaseBranch(extractProjectNameFromPR(payload.issue.body)))
          => LET p == extractProjectNameFromPR(payload.issue.body)
                 version == getNextVersion(findDraftRelease(p), Str_patch)
             IN  /\ ~failed'
                 /\ Calls(issued') = <<"addReaction", "updateRef", "setVersion",
                                       "updatePullRequest">>
                 /\ \A i \in BranchesNamed(branches', getReleaseBranchName(p)) :
                       /\ HasVersionField(branches'[i].manifest)
                       /\ VersionFieldValue(branches'[i].manifest) = version
                 /\ \A i \in CommentedPullRequests(pullRequests') :
                       pullRequests'[i].title = getPullRequestTitle(p, version)]_vars

(***************************************************************************)
(* SpecFault: the push trigger on a platform that can reject a call, and   *)
(* with a second writer: while a run is in progress another actor may add  *)
(* a commit to a release branch.                                           *)
(***************************************************************************)
MaxAhead == 1

\* Another actor commits on the release branch of the project in pass,
\* between the creation of the branch and the commit of the version
HeadMoved ==
    /\ pc = "setDraftReleaseBranchVersion"
    /\ \E i \in BranchesNamed(branches, getReleaseBranchName(projectInPass)) :
          /\ branches[i].ahead < MaxAhead
          /\ branches' = [branches EXCEPT ![i].oid = FreshOid(branches),
                                          ![i].ahead = @ + 1]
    /\ UNCHANGED <<tags, pullRequests, reactions, pc, payload, draftRelease,
                   versionType, nextVersion, failed, files, projectsOfRelevance,
                   projectInPass, issued, runs>>

\* The platform call of a position of the pass; a read is not a mutating call
MutatingCall(at) ==
    CASE at = "createDraftReleaseBranch"      -> <<"createRef">>
      [] at = "setDraftReleaseBranchVersion"  -> <<"createCommitOnBranch">>
      [] at = "createDraftReleasePullRequest" -> <<"createPullRequest">>
      [] at = "updatePullRequestLabels"       -> <<"updatePullRequestLabels">>
      [] at = "updateDraftReleaseBranch"      -> <<"updatePullRequestBranch">>
      [] OTHER                                -> <<>>

\* The awaited call of the run is rejected by the platform (network, auth,
\* not found): nothing is changed and the exception is thrown
CallFails ==
    /\ pc \in {"pushEvent"} \cup PassSteps
    /\ issued' = issued \o [k \in 1..Len(MutatingCall(pc)) |->
                               [call |-> MutatingCall(pc)[k], project |-> projectInPass]]
    /\ Throw
    /\ UNCHANGED <<tags, branches, pullRequests, reactions, payload, draftRelease,
                   versionType, nextVersion, files, projectsOfRelevance, projectInPass,
                   runs>>

NextFault ==
    \/ \E fs \in Pushes : PushCreated(fs, payload.day)
    \/ pushEvent
    \/ AwaitFindDraftRelease
    \/ AwaitCreateDraftReleaseBranch
    \/ AwaitSetDraftReleaseBranchVersion
    \/ AwaitCreateDraftReleasePullRequest
    \/ AwaitUpdatePullRequestLabels
    \/ AwaitUpdateDraftReleaseBranch
    \/ HeadMoved
    \/ CallFails

SpecFault == InitPush /\ [][NextFault]_vars

\* The head of the release branch of the project in pass is the commit the
\* run created the branch at
HeadAsObserved ==
    \A i \in BranchesNamed(branches, getReleaseBranchName(projectInPass)) :
       branches[i].oid = payload.after

\* The step of the version-bump commit: the call is issued
CommitIssued == pc = "setDraftReleaseBranchVersion" /\ pc' # pc

C28_FailureSparesSiblings ==
    (PushDone /\ projectsOfRelevance # <<>>)
       => projectInPass = projectsOfRelevance[Len(projectsOfRelevance)]

\* C29: fail-fast: the step at which a call of a pass is rejected ends the
\* run as failed, and a failed run issues no later call and changes no
\* branch and no pull request.
C29_FailFast ==
    /\ [][(~failed /\ failed') => pc' = "done"]_vars
    /\ [][(failed /\ payload' = payload)
             => UNCHANGED <<issued, branches, pullRequests, pc>>]_vars

\* The creation of the release branch of core was rejected in a run on core
\* and grid: no commit and no pull request followed
C29_Witness ==
    /\ PushDone
    /\ failed
    /\ projectsOfRelevance = <<Str_core, Str_grid>>
    /\ issued = <<[call |-> "createRef", project |-> Str_core]>>
    /\ BranchesNamed(branches, getReleaseBranchName(Str_core)) = {}
    /\ pullRequests = <<>>

\* C30: no automatic retry: within one run every mutating platform call is
\* issued at most once for a project, whether it is accepted or rejected.
C30_NoRetry ==
    \A j, k \in 1..Len(issued) : issued[j] = issued[k] => j = k

\* A run on core and grid has issued the calls of both passes, and the last
\* call was rejected
C30_Witness ==
    /\ PushDone
    /\ failed
    /\ Calls(issued) = <<"createRef", "createCommitOnBranch", "createPullRequest",
                         "updatePullRequestLabels", "createRef", "createCommitOnBranch",
                         "updatePullRequestBranch">>
    /\ issued[1].project = Str_core
    /\ issued[7].project = Str_grid

\* ---------------------------------------------------------------------------
\* Two comment-triggered runs committing to the same release branch.
\* Each run is one invocation of setReleaseBranchVersion with the head it
\* observed; the platform serialises the createCommitOnBranch mutations.
\* ---------------------------------------------------------------------------

\* The versions the two comments ask for
RaceVersions ==
    {Version_0_0_1, Version_1_2_4, Version_2_0_0}

RaceRun(version) ==
    [at |-> "observe", version |-> version, sha |-> 0, content |-> <<>>,
     failed |-> FALSE]

InitRace ==
    /\ tags = <<>>
    /\ branches = <<MainBranch(1), BranchOfCore>>
    /\ pullRequests = <<PullRequestOfCore>>
    /\ reactions = {}
    /\ pc = "idle"
    /\ payload = [event |-> "none", run |-> 0, day |-> 0]
    /\ draftRelease = NoDraftRelease
    /\ versionType = Str_patch
    /\ nextVersion = Null
    /\ failed = FALSE
    /\ files = <<>>
    /\ projectsOfRelevance = <<>>
    /\ projectInPass = Undefined
    /\ issued = <<>>
    /\ \E v \in RaceVersions, w \in RaceVersions :
          runs = <<RaceRun(v), RaceRun(w)>>

\* The release branch both runs commit to
RaceBranch ==
    CHOOSE i \in DOMAIN branches : branches[i].name = getReleaseBranchName(Str_core)

\* The run reads the head of the pull request's branch
ObserveHead(r) ==
    /\ runs[r].at = "observe"
    /\ runs' = [runs EXCEPT ![r].sha = branches[RaceBranch].oid,
                            ![r].at = "getFileContent"]
    /\ UNCHANGED <<tags, branches, pullRequests, reactions, pc, payload, draftRelease,
                   versionType, nextVersion, failed, files, projectsOfRelevance,
                   projectInPass, issued>>

\* setReleaseBranchVersion reads the manifest on the branch
GetFileContent(r) ==
    /\ runs[r].at = "getFileContent"
    /\ runs' = [runs EXCEPT ![r].content = branches[RaceBranch].manifest,
                            ![r].at = "createCommitOnBranch"]
    /\ UNCHANGED <<tags, branches, pullRequests, reactions, pc, payload, draftRelease,
                   versionType, nextVersion, failed, files, projectsOfRelevance,
                   projectInPass, issued>>

\* setReleaseBranchVersion commits the patched manifest on the observed head
CreateCommitOnBranch(r) ==
    /\ runs[r].at = "createCommitOnBranch"
    /\ IF CommitAccepted(branches[RaceBranch], runs[r].sha)
       THEN /\ branches' =
                 [branches EXCEPT
                     ![RaceBranch].manifest =
                         patchPackageJson(runs[r].content, runs[r].version),
                     ![RaceBranch].oid = FreshOid(branches),
                     ![RaceBranch].ahead = @ + 1]
            /\ runs' = [runs EXCEPT ![r].at = "done"]
       ELSE /\ branches' = branches
            /\ runs' = [runs EXCEPT ![r].at = "done", ![r].failed = TRUE]
    /\ UNCHANGED <<tags, pullRequests, reactions, pc, payload, draftRelease,
                   versionType, nextVersion, failed, files, projectsOfRelevance,
                   projectInPass, issued>>

NextRace ==
    \E r \in {1, 2} :
        \/ ObserveHead(r)
        \/ GetFileContent(r)
        \/ CreateCommitOnBranch(r)

SpecRace == InitRace /\ [][NextRace]_vars

RaceDone ==
    \A r \in DOMAIN runs : runs[r].at = "done"

SameHeadObserved ==
    /\ Len(runs) = 2
    /\ runs[1].sha = runs[2].sha

RunAgain ==
    /\ pc = "done"
    /\ payload.event = "push"
    /\ payload.run < MaxPushes
    /\ payload' = [payload EXCEPT !.run = @ + 1]
    /\ pc' = "pushEvent"
    /\ failed' = FALSE
    /\ draftRelease' = NoDraftRelease
    /\ nextVersion' = Null
    /\ files' = <<>>
    /\ projectsOfRelevance' = <<>>
    /\ projectInPass' = Undefined
    /\ issued' = <<>>
    /\ UNCHANGED <<tags, branches, pullRequests, reactions, versionType, runs>>

NextTwice ==
    \/ payload.run = 0 /\ TagCreated(Tag_1_2_3)
    \/ payload.run = 0 /\ \E fs \in Pushes : PushCreated(fs, 0)
    \/ payload.run > 0 /\ PushCreated(payload.commits, payload.day)
    \/ RunAgain
    \/ pushEvent
    \/ AwaitFindDraftRelease
    \/ AwaitCreateDraftReleaseBranch
    \/ AwaitSetDraftReleaseBranchVersion
    \/ AwaitCreateDraftReleasePullRequest
    \/ AwaitUpdatePullRequestLabels
    \/ AwaitUpdateDraftReleaseBranch

SpecTwice == InitPush /\ [][NextTwice]_vars

\* What a pass leaves on the platform: the branches, the open pull requests
\* with title and body, and the version in the manifest of each branch
ReleaseState(brs, prs) ==
    [branches |-> BranchNames(brs),
     open     |-> {[number |-> prs[i].number, title |-> prs[i].title,
                    body |-> prs[i].body] :
                      i \in {j \in 1..Len(prs) : prs[j].state = "OPEN"}},
     versions |-> {<<brs[i].name, VersionFieldValue(brs[i].manifest)>> :
                      i \in {j \in 1..Len(brs) : HasVersionField(brs[j].manifest)}}]

\* A run after the first one of the trigger
LaterRun == payload.event = "push" /\ payload.run >= 1 /\ payload'.run >= 2

\* C31: when the same push trigger is handled a second time and nothing else
\* changed the platform, the second pass leaves the set of branches, the open
\* pull requests with their title and body, and the manifest version of every
\* release branch as the first pass left them, and it issues no branch
\* creation, no pull request creation and no version commit.
C31_SecondPassChangesNothing ==
    /\ [][LaterRun => ReleaseState(branches', pullRequests')
                         = ReleaseState(branches, pullRequests)]_vars
    /\ [](payload.run >= 2
            => \A k \in 1..Len(issued) :
                  issued[k].call \notin
                     {"createRef", "createCommitOnBranch", "createPullRequest"})

\* The second push of core/a.ts ended: the branch of the draft release the
\* first push opened was rebased, and nothing else was issued
C31_Witness ==
    /\ PushDone
    /\ payload.run = 2
    /\ ~failed
    /\ tags = <<>>
    /\ issued = <<[call |-> "updatePullRequestBranch", project |-> Str_core]>>
    /\ pullRequests = <<PullRequestOfCore>>
    /\ ReleaseState(branches, pullRequests).versions
          = {<<getReleaseBranchName(Str_core), getDefaultNextVersion>>}
    /\ payload.after = branches[1].oid
    /\ \A i \in BranchesNamed(branches, getReleaseBranchName(Str_core)) :
          branches[i].base = payload.after

OnBranchWithoutPullRequest ==
    /\ pc = "findDraftRelease"
    /\ BranchesNamed(branches, getReleaseBranchName(projectInPass)) # {}
    /\ OpenPullRequests(pullRequests, projectInPass) = {}

\* C33: a push pass on a project whose release branch exists and which has no
\* open release pull request opens the pull request and leaves the release
\* branch untouched: the pass goes on to create the pull request, the steps
\* that create it change no branch (no head, no manifest, no new branch), and
\* the pass ends with the pull request open.
C33_BranchWithoutPullRequestGetsOne ==
    /\ [][OnBranchWithoutPullRequest => pc' = "createDraftReleasePullRequest"]_vars
    /\ [][(pc \in {"createDraftReleasePullRequest", "updatePullRequestLabels"})
            => branches' = branches]_vars
    /\ [][pc = "updatePullRequestLabels"
            => OpenPullRequests(pullRequests', projectInPass) # {}]_vars

\* Semver order on parsed versions: major, minor and patch compared as
\* numbers, and a release above its own prereleases. The versions the resolver
\* returns for major, minor and patch carry no prerelease identifiers, so two
\* prereleases of the same version are never compared here.
SemVerGreater(a, b) ==
    \/ a.major > b.major
    \/ a.major = b.major /\ a.minor > b.minor
    \/ a.major = b.major /\ a.minor = b.minor /\ a.patch > b.patch
    \/ /\ a.major = b.major /\ a.minor = b.minor /\ a.patch = b.patch
       /\ a.prerelease = <<>>
       /\ b.prerelease # <<>>

\* C34: when the tag sequence of the project is not empty and every tag is
\* well-formed, the resolved version is a version, is the version of no
\* existing tag, and is greater in semver order than every tagged version.
C34_NextVersionAboveEveryTag ==
    (/\ Resolved
     /\ ResolvedTags # <<>>
     /\ \A i \in 1..Len(ResolvedTags) : WellFormedTag(ResolvedTags[i].name))
    => /\ SemVerParse(nextVersion).valid
       /\ \A i \in 1..Len(ResolvedTags) :
             /\ nextVersion # TagSuffix(ResolvedTags[i].name)
             /\ SemVerGreater(SemVerParse(nextVersion),
                              SemVerParse(TagSuffix(ResolvedTags[i].name)))

(***************************************************************************)
(* SpecOverride: the open release pull request of core after the release   *)
(* core@v1.2.3. Comments are posted on it one by one, and between them the  *)
(* engine reads the draft release and resolves the next version, as every   *)
(* pass does, for any requested bump.                                       *)
(***************************************************************************)
InitOverride ==
    /\ tags = TagRefs(<<Tag_1_2_3>>)
    /\ branches = <<>>
    /\ pullRequests = <<ReleasePullRequest(Str_core, <<>>, <<>>)>>
    /\ reactions = {}
    /\ pc = "resolve"
    /\ payload = [event |-> "none"]
    /\ draftRelease = NoDraftRelease
    /\ versionType \in Version
    /\ nextVersion = Null
    /\ failed = FALSE
    /\ files = <<>>
    /\ projectsOfRelevance = <<>>
    /\ projectInPass = Undefined
    /\ issued = <<>>
    /\ runs = <<>>

\* A developer posts a comment on the pull request
CommentPosted(body) ==
    /\ Len(pullRequests[1].comments) < MaxComments
    /\ pullRequests' =
          [pullRequests EXCEPT ![1].comments =
              Append(@, [id |-> Len(@) + 1, author |-> [login |-> "dev"],
                         body |-> body])]
    /\ pc' = "resolve"
    /\ UNCHANGED <<tags, branches, reactions, payload, draftRelease, versionType,
                   nextVersion, failed, files, projectsOfRelevance, projectInPass,
                   issued, runs>>

\* A later trigger starts a pass with its requested bump
LaterPass(bump) ==
    /\ pc = "resolved"
    /\ pc' = "resolve"
    /\ versionType' = bump
    /\ UNCHANGED <<tags, branches, pullRequests, reactions, payload, draftRelease,
                   nextVersion, failed, files, projectsOfRelevance, projectInPass,
                   issued, runs>>

NextOverride ==
    \/ \E body \in CommentBodies : CommentPosted(body)
    \/ \E bump \in Version : LaterPass(bump)
    \/ ResolveVersion

SpecOverride == InitOverride /\ [][NextOverride]_vars

\* The comments of the pull request on the platform, and the positions of
\* its setversion comments
Thread == pullRequests[1].comments

ThreadSetVersionAt ==
    {j \in 1..Len(Thread) : StartsWith(Thread[j].body, Commands.SetVersion)}

LastSetVersion == CHOOSE j \in ThreadSetVersionAt : \A k \in ThreadSetVersionAt : k <= j

\* C35: once a valid setversion comment is on the open release pull request
\* of a project, every pass resolves the next version with the bump type of
\* that comment, whatever bump the pass requests and whatever other comments
\* follow, for as long as no later setversion comment is posted.
C35_OverridePersists ==
    (/\ Resolved
     /\ ThreadSetVersionAt # {}
     /\ At(Split(Thread[LastSetVersion].body, " "), 2) \in Version)
    => nextVersion = SemVerInc(TagSuffix(Tag_1_2_3),
                               At(Split(Thread[LastSetVersion].body, " "), 2))

\* The version in the title of the open release pull requests of a project
\* is the version in the manifest on its release branch
TitleShowsManifestVersion(p) ==
    \A i \in OpenPullRequests(pullRequests, p) :
       \A j \in BranchesNamed(branches, getReleaseBranchName(p)) :
          pullRequests[i].title
             = getPullRequestTitle(p, VersionFieldValue(branches[j].manifest))

\* C36: after every pass that completes without failure the version shown in
\* the title of the open release pull request of a project is the version
\* stored in the manifest on the release branch of the project.
C36_TitleMatchesManifest ==
    (pc = "done" /\ ~failed)
        => \A k \in 1..Len(projects) : TitleShowsManifestVersion(projects[k])

PushRun(sha) ==
    [at |-> "findDraftRelease", sha |-> sha, draftRelease |-> NoDraftRelease,
     nextVersion |-> Null, failed |-> FALSE, created |-> FALSE]

InitPushRace ==
    /\ tags \in {<<>>, TagRefs(<<Tag_1_2_3>>)}
    /\ branches = <<MainBranch(2)>>
    /\ pullRequests = <<>>
    /\ reactions = {}
    /\ pc = "idle"
    /\ payload = [event |-> "push", ref |-> Str_refsHeads \o Str_main, run |-> 0,
                  day |-> 0]
    /\ draftRelease = NoDraftRelease
    /\ versionType = Str_patch
    /\ nextVersion = Null
    /\ failed = FALSE
    /\ files = <<>>
    /\ projectsOfRelevance = <<Str_core>>
    /\ projectInPass = Str_core
    /\ issued = <<>>
    /\ \E sha \in {1, 2} : runs = <<PushRun(sha), PushRun(2)>>

\* The rest of the platform and of the engine's state, which a step of one
\* of the two runs leaves alone
RaceFrame ==
    UNCHANGED <<tags, reactions, pc, payload, draftRelease, versionType, nextVersion,
                failed, files, projectsOfRelevance, projectInPass, issued>>

\* findDraftRelease, getNextVersion and the test on the branches
RaceFindDraftRelease(r) ==
    /\ runs[r].at = "findDraftRelease"
    /\ LET d == findDraftRelease(projectInPass)
       IN  runs' = [runs EXCEPT
               ![r].draftRelease = d,
               ![r].nextVersion = getNextVersion(d, Str_patch),
               ![r].at = IF BranchesNamed(d.branches.branches,
                                          Str_krytenbot \o <<"-">> \o projectInPass) = {}
                         THEN "createDraftReleaseBranch"
                         ELSE PullRequestStep(d)]
    /\ UNCHANGED <<branches, pullRequests>>
    /\ RaceFrame

\* createReleaseBranch: createRef at the sha of the run
RaceCreateDraftReleaseBranch(r) ==
    /\ runs[r].at = "createDraftReleaseBranch"
    /\ IF CreateRefAccepted(branches, getReleaseBranchName(projectInPass))
       THEN /\ branches' =
                 Append(branches,
                        [id |-> Len(branches), name |-> getReleaseBranchName(projectInPass),
                         oid |-> runs[r].sha, base |-> runs[r].sha, ahead |-> 0,
                         manifest |-> PackageJson(projectInPass)])
            /\ runs' = [runs EXCEPT ![r].at = "setDraftReleaseBranchVersion",
                                    ![r].created = TRUE]
       ELSE /\ branches' = branches
            /\ runs' = [runs EXCEPT ![r].at = "done", ![r].failed = TRUE]
    /\ UNCHANGED pullRequests
    /\ RaceFrame

\* setReleaseBranchVersion with the sha of the run as the expected head
RaceSetDraftReleaseBranchVersion(r) ==
    /\ runs[r].at = "setDraftReleaseBranchVersion"
    /\ LET hits == BranchesNamed(branches, getReleaseBranchName(projectInPass))
           i    == CHOOSE i \in hits : TRUE
       IN  IF hits # {} /\ CommitAccepted(branches[i], runs[r].sha)
           THEN /\ branches' =
                     [branches EXCEPT
                         ![i].manifest = patchPackageJson(@, runs[r].nextVersion),
                         ![i].oid = FreshOid(branches),
                         ![i].ahead = @ + 1]
                /\ runs' = [runs EXCEPT ![r].at = PullRequestStep(runs[r].draftRelease)]
           ELSE /\ branches' = branches
                /\ runs' = [runs EXCEPT ![r].at = "done", ![r].failed = TRUE]
    /\ UNCHANGED pullRequests
    /\ RaceFrame

\* createPullRequest, first call
RaceCreateDraftReleasePullRequest(r) ==
    /\ runs[r].at = "createDraftReleasePullRequest"
    /\ IF \E i \in 1..Len(pullRequests) :
             /\ pullRequests[i].state = "OPEN"
             /\ pullRequests[i].headRefName = getReleaseBranchName(projectInPass)
             /\ pullRequests[i].baseRefName = Substring(payload.ref, Len(Str_refsHeads))
       THEN /\ pullRequests' = pullRequests
            /\ runs' = [runs EXCEPT ![r].at = "done", ![r].failed = TRUE]
       ELSE /\ pullRequests' =
                 Append(pullRequests,
                        [id |-> Len(pullRequests) + 1, number |-> Len(pullRequests) + 1,
                         title |-> getPullRequestTitle(projectInPass, runs[r].nextVersion),
                         body |-> getPullRequestBody(projectInPass, runs[r].nextVersion,
                                                     FALSE),
                         labels |-> {}, state |-> "OPEN",
                         baseRefName |-> Substring(payload.ref, Len(Str_refsHeads)),
                         headRefName |-> getReleaseBranchName(projectInPass),
                         createdAt |-> payload.day, comments |-> <<>>])
            /\ runs' = [runs EXCEPT ![r].at = "updatePullRequestLabels"]
    /\ UNCHANGED branches
    /\ RaceFrame

\* createPullRequest, second call: the labels of the pull request it created
RaceUpdatePullRequestLabels(r) ==
    /\ runs[r].at = "updatePullRequestLabels"
    /\ pullRequests' = [pullRequests EXCEPT
                           ![Len(pullRequests)].labels =
                               PullRequestLabels(runs[r].draftRelease)]
    /\ runs' = [runs EXCEPT ![r].at = "done"]
    /\ UNCHANGED branches
    /\ RaceFrame

\* updateReleaseBranch: updatePullRequestBranch(REBASE) on the pull request
\* the run read
RaceUpdateDraftReleaseBranch(r) ==
    /\ runs[r].at = "updateDraftReleaseBranch"
    /\ LET d    == runs[r].draftRelease
           pr   == CHOOSE pr \in {pullRequests[i] : i \in 1..Len(pullRequests)} :
                       pr.id = d.pullRequests.pullRequests[1].id
           head == CHOOSE i \in BranchesNamed(branches, pr.headRefName) : TRUE
           base == CHOOSE i \in BranchesNamed(branches, pr.baseRefName) : TRUE
       IN  IF branches[head].base = branches[base].oid
           THEN /\ branches' = branches
                /\ runs' = [runs EXCEPT ![r].at = "done", ![r].failed = TRUE]
           ELSE /\ branches' = [branches EXCEPT ![head].base = branches[base].oid,
                                                ![head].oid = FreshOid(branches)]
                /\ runs' = [runs EXCEPT ![r].at = "done"]
    /\ UNCHANGED pullRequests
    /\ RaceFrame

NextPushRace ==
    \E r \in {1, 2} :
        \/ RaceFindDraftRelease(r)
        \/ RaceCreateDraftReleaseBranch(r)
        \/ RaceSetDraftReleaseBranchVersion(r)
        \/ RaceCreateDraftReleasePullRequest(r)
        \/ RaceUpdatePullRequestLabels(r)
        \/ RaceUpdateDraftReleaseBranch(r)

SpecPushRace == InitPushRace /\ [][NextPushRace]_vars

============================================================================
